---------------------------- MODULE Spec2Model ----------------------------
(***************************************************************************)
(* A model of liblekhika's core (src/core/src/lekhika_core.cpp): the       *)
(* transliteration engine (configuration loading, literal-span masking,    *)
(* segmentation, correction, greedy longest-match lookup) and the          *)
(* Devanagari word validator.                                              *)
(*                                                                         *)
(* A std::string is a sequence of bytes (0..255): Devanagari text is its   *)
(* UTF-8 encoding, three bytes per code point, so that size(), find() and  *)
(* the byte tests of the code mean here what they mean there.  Indices     *)
(* passed to the string operators are the 0-based indices of the code.     *)
(* An icu::UnicodeString is a sequence of code points of the BMP.          *)
(***************************************************************************)
EXTENDS Integers, Sequences, FiniteSets, TLC

VARIABLES
    configId,                       \* which data directory the engine was built from
    dataDir_,                       \* Impl::dataDir_: the two files of that directory
    charMap_,                       \* Impl::charMap_: key bytes -> value bytes
    specialWords_,                  \* Impl::specialWords_
    enableSmartCorrection_,
    enableAutoCorrect_,
    enableIndicNumbers_,
    enableSymbolsTransliteration_,
    pc,                             \* "idle" | "returned" | "validated": a call has returned
    input,                          \* the argument of the call that returned
    result,                         \* its return value
    steps,                          \* the iterations of the matching loop in that call
    cleaned,                        \* the segments that call handed to preprocess, and
                                    \* what each block of the correction made of them
    callFlags,                      \* the flag values read by that call
    restore,                        \* the restoration loop of a call in progress
                                    \* (SpecTerminate): engTokens, the order of the
                                    \* range-for, the entry it is at, pos
    earlier,                        \* one call remembered from before (SpecFlags)
    word,                           \* the UnicodeString handed to the validator (SpecValid)
    icu,                            \* the ICU the process runs with: one of IcuBuilds
    verdict,                        \* "none" | TRUE | FALSE: isValidDevanagariWord's answer
    db_,                            \* the rows of table words of the open database:
                                    \* word -> frequency
    addCalls,                       \* word -> the addWord calls made for it since it was
                                    \* last removed or the dictionary last reset
    dictCall                        \* the DictionaryManager call that returned last

engineVars == <<configId, dataDir_, charMap_, specialWords_>>
flagVars == <<enableSmartCorrection_, enableAutoCorrect_, enableIndicNumbers_,
              enableSymbolsTransliteration_>>
callVars == <<pc, input, result, steps, cleaned, callFlags, restore, restore>>
validVars == <<word, icu, verdict>>
dictVars == <<db_, addCalls, dictCall>>
vars == <<engineVars, flagVars, callVars, earlier, validVars, dictVars>>

---------------------------------------------------------------------------
(* Bounds of the model. *)

\* longest input string handed to transliterate
MaxLen == 3

\* longest word (in code points) handed to isValidDevanagariWord
MaxSmartLen == 4          \* bytes of an input of transliterate in SpecSmart
MaxBytes == 6             \* bytes of an argument of sanitizeDevanagariWord
MaxLines == 3             \* lines of a file handed to learnFromFile
MaxFrequency == 2         \* a call is made only while no stored frequency exceeds this
MaxAddCalls == 3          \* addWord calls counted for one word
MaxWordLen == 4

\* the longest input of the gemination runs (SpecGeminate)
MaxGeminateLen == 5

\* the bytes up to which the restoration loop is followed while result grows
MaxResult == 6

---------------------------------------------------------------------------
(* Evaluation *)

\* F applied to the value of e, with e evaluated once
With(e, F(_)) == CHOOSE r \in {F(v) : v \in {e}} : TRUE

\* the least element of a non-empty set of numbers
SetMin(S) == CHOOSE x \in S : \A y \in S : x <= y

\* the greatest element of a non-empty set of numbers
SetMax(S) == CHOOSE x \in S : \A y \in S : x >= y

Min(a, b) == IF a < b THEN a ELSE b

---------------------------------------------------------------------------
(* std::string *)

\* std::string::npos (the model's integers are 32-bit: their largest value
\* stands for SIZE_MAX)
npos == 2147483647

\* an unsigned subtraction that wraps below zero
WrapSize(x) == IF x < 0 THEN npos + (x + 1) ELSE x

\* the value a call returns when std::out_of_range is thrown inside it
OutOfRange == <<-1>>

\* s.substr(pos, n)
SubStr(s, pos, n) ==
    IF pos > Len(s) THEN OutOfRange
    ELSE SubSeq(s, pos + 1, IF n >= Len(s) - pos THEN Len(s) ELSE pos + n)

\* s.substr(pos)
SubStrFrom(s, pos) == SubStr(s, pos, npos)

\* s.erase(0, n)
EraseFront(s, n) == SubSeq(s, Min(n, Len(s)) + 1, Len(s))

\* s.replace(pos, n, t), pos <= s.size()
Replace(s, pos, n, t) ==
    SubSeq(s, 1, pos) \o t \o SubSeq(s, Min(pos + n, Len(s)) + 1, Len(s))

\* whether pat stands in s at 0-based index i
MatchAt(s, pat, i) ==
    /\ i + Len(pat) <= Len(s)
    /\ \A j \in 1..Len(pat) : s[i + j] = pat[j]

\* s.find(pat, from): the first index from `from` on where pat stands
Find(s, pat, from) ==
    With({i \in from..(Len(s) - Len(pat)) : MatchAt(s, pat, i)},
         LAMBDA at : IF at = {} THEN npos ELSE SetMin(at))

\* s.find_first_not_of(" \t")
FindFirstNotOf(s) ==
    With({i \in 0..(Len(s) - 1) : s[i + 1] \notin {32, 9}},
         LAMBDA at : IF at = {} THEN npos ELSE SetMin(at))

\* s.find_last_not_of(" \t")
FindLastNotOf(s) ==
    With({i \in 0..(Len(s) - 1) : s[i + 1] \notin {32, 9}},
         LAMBDA at : IF at = {} THEN npos ELSE SetMax(at))

\* s.erase(0, s.find_first_not_of(" \t")); s.erase(s.find_last_not_of(" \t") + 1)
Trim(s) ==
    With(EraseFront(s, FindFirstNotOf(s)),
         LAMBDA l : With(FindLastNotOf(l),
                         LAMBDA e : IF e = npos THEN <<>> ELSE SubSeq(l, 1, e + 1)))

\* the strings successive std::getline(stream, piece, delim) calls read from
\* the part of s that starts at index from: the pieces between delimiters,
\* without a last piece that is empty
RECURSIVE GetLinesFrom(_, _, _)
GetLinesFrom(s, delim, from) ==
    IF from >= Len(s) THEN <<>>
    ELSE With(Find(s, <<delim>>, from),
              LAMBDA e : IF e = npos THEN <<SubStrFrom(s, from)>>
                         ELSE <<SubStr(s, from, e - from)>> \o GetLinesFrom(s, delim, e + 1))

GetLines(s, delim) == With(s, LAMBDA str : GetLinesFrom(str, delim, 0))

\* std::to_string(n), n >= 0
RECURSIVE to_string(_)
to_string(n) ==
    IF n < 10 THEN <<48 + n>> ELSE to_string(n \div 10) \o <<48 + (n % 10)>>

\* <cctype> in the "C" locale.  A byte above 127 reaches std::isdigit and
\* std::isalnum as a negative char; every outcome of that call copies the byte
\* (no key is a single such byte), and the model takes the answer "no".
IsDigit(c) == c \in 48..57
IsAlpha(c) == c \in 65..90 \/ c \in 97..122
IsAlnum(c) == IsDigit(c) \/ IsAlpha(c)
ToLower(c) == IF c \in 65..90 THEN c + 32 ELSE c

\* every sequence over S of length at most n
RECURSIVE SeqsUpTo(_, _)
SeqsUpTo(S, n) ==
    IF n = 0 THEN {<<>>}
    ELSE With(SeqsUpTo(S, n - 1),
              LAMBDA shorter :
                  shorter \cup {Append(t, c) : t \in {u \in shorter : Len(u) = n - 1}, c \in S})

\* every ordering of the finite set S
RECURSIVE Orderings(_)
Orderings(S) ==
    IF S = {} THEN {<<>>}
    ELSE UNION {{<<x>> \o o : o \in Orderings(S \ {x})} : x \in S}

---------------------------------------------------------------------------
(* std::unordered_map<std::string, std::string> *)

EmptyMap == [k \in {} |-> <<>>]

\* m[k] = v
Put(m, k, v) == (k :> v) @@ m

\* the guard forgotten: m[k] = v whether or not k is there
PutOverriding(m, k, v) == (k :> v) @@ m

\* if (!m.count(k)) m[k] = v
PutIfAbsent(m, k, v) == m @@ (k :> v)

---------------------------------------------------------------------------
(* ConfigLoader *)

\* the lambda unquote of parseMappingsToml: the escapes of a string, from
\* index i on
RECURSIVE Unescape(_, _)
Unescape(str, i) ==
    IF i >= Len(str) THEN <<>>
    ELSE IF str[i + 1] = 92 /\ i + 1 < Len(str)
         THEN <<(IF str[i + 2] = 92 THEN 92
                 ELSE IF str[i + 2] = 110 THEN 10
                 ELSE IF str[i + 2] = 116 THEN 9
                 ELSE str[i + 2])>> \o Unescape(str, i + 2)
         ELSE <<str[i + 1]>> \o Unescape(str, i + 1)

\* the lambda unquote of parseMappingsToml
unquote(s) ==
    With(s, LAMBDA str :
        With(IF /\ Len(str) >= 2
                /\ \/ str[1] = 34 /\ str[Len(str)] = 34
                   \/ str[1] = 39 /\ str[Len(str)] = 39
             THEN SubStr(str, 1, Len(str) - 2) ELSE str,
             LAMBDA inner : Unescape(inner, 0)))

\* the key of a "key = value" line of mapping.toml, as parseMappingsToml reads it
MappingKey(line, eqPos) == unquote(Trim(SubStr(line, 0, eqPos)))

\* the value of a "key = value" line of mapping.toml: cut at the first '#',
\* trimmed, unquoted
MappingValue(line, eqPos) ==
    With(SubStrFrom(line, eqPos + 1), LAMBDA value :
        With(Find(value, <<35>>, 0), LAMBDA commentPos :
            unquote(Trim(IF commentPos # npos THEN SubStr(value, 0, commentPos)
                         ELSE value))))

\* the body of the line loop of parseMappingsToml for one line: st is
\* [section, charMap, consonantMap]
MappingLine(st, raw) ==
    With(Trim(raw), LAMBDA line :
        IF line = <<>> \/ line[1] = 35 THEN st
        ELSE IF line[1] = 91 /\ line[Len(line)] = 93
        THEN [st EXCEPT !.section = SubStr(line, 1, Len(line) - 2)]
        ELSE With(Find(line, <<61>>, 0), LAMBDA eqPos :
            IF eqPos = npos THEN st
            ELSE IF st.section = <<99,104,97,114,77,97,112>>                  \* "charMap"
            THEN [st EXCEPT !.charMap =
                      Put(@, MappingKey(line, eqPos), MappingValue(line, eqPos))]
            ELSE IF st.section = <<99,111,110,115,111,110,97,110,116,77,97,112>>
                                                                              \* "consonantMap"
            THEN [st EXCEPT !.consonantMap =
                      Put(@, MappingKey(line, eqPos), MappingValue(line, eqPos))]
            ELSE st))

\* the line loop of parseMappingsToml
RECURSIVE ReadMappingLines(_, _, _)
ReadMappingLines(lines, i, st) ==
    IF i > Len(lines) THEN st
    ELSE With(MappingLine(st, lines[i]),
              LAMBDA st2 : ReadMappingLines(lines, i + 1, st2))

\* what the line loop of parseMappingsToml leaves: the explicit charMap entries
\* and the consonantMap
ReadMappings(content) ==
    With(GetLines(content, 10), LAMBDA lines :
        ReadMappingLines(lines, 1,
            [section |-> <<>>, charMap |-> EmptyMap, consonantMap |-> EmptyMap]))

\* one iteration of the expansion loop of parseMappingsToml: the entries one
\* consonantMap entry derives, each only if its key is absent
ExpandConsonant(cm, conso, val) ==
    With(IF Len(conso) > 1 /\ conso[Len(conso)] = 97
         THEN SubStr(conso, 0, Len(conso) - 1) ELSE conso,
         LAMBDA consoMinusA :
            PutIfAbsent(
            PutIfAbsent(
            PutIfAbsent(
            PutIfAbsent(
            PutIfAbsent(
            PutIfAbsent(
            PutIfAbsent(
            PutIfAbsent(
            PutIfAbsent(
            PutIfAbsent(
            PutIfAbsent(
            PutIfAbsent(cm,
                conso, val),
                conso \o <<97>>, val \o <<224,164,190>>),                   \* a
                consoMinusA \o <<105>>, val \o <<224,164,191>>),            \* i
                consoMinusA \o <<101,101>>, val \o <<224,165,128>>),        \* ee
                consoMinusA \o <<117>>, val \o <<224,165,129>>),            \* u
                consoMinusA \o <<111,111>>, val \o <<224,165,130>>),        \* oo
                consoMinusA \o <<114,114,105>>, val \o <<224,165,131>>),    \* rri
                consoMinusA \o <<101>>, val \o <<224,165,135>>),            \* e
                consoMinusA \o <<97,105>>, val \o <<224,165,136>>),         \* ai
                consoMinusA \o <<111>>, val \o <<224,165,139>>),            \* o
                consoMinusA \o <<97,117>>, val \o <<224,165,140>>),         \* au
                consoMinusA, val \o <<224,165,141>>))                       \* halant

\* the expansion loop, visiting the consonantMap entries in the given order
RECURSIVE ExpandAll(_, _, _, _)
ExpandAll(cm, consonantMap, order, i) ==
    IF i > Len(order) THEN cm
    ELSE With(ExpandConsonant(cm, order[i], consonantMap[order[i]]),
              LAMBDA cm2 : ExpandAll(cm2, consonantMap, order, i + 1))

\* Impl::parseMappingsToml; the range-for over the unordered consonantMap
\* visits its entries in an order the library chooses
parseMappingsToml(content, order) ==
    With(ReadMappings(content), LAMBDA st :
        ExpandAll(st.charMap, st.consonantMap, order, 1))

\* the body of the line loop of parseSpecialWordsToml for one line: st is
\* [section, specialWords]
SpecialLine(st, raw) ==
    With(Trim(raw), LAMBDA line :
        IF line = <<>> \/ line[1] = 35 THEN st
        ELSE IF line[1] = 91 /\ line[Len(line)] = 93
        THEN [st EXCEPT !.section = SubStr(line, 1, Len(line) - 2)]
        ELSE IF st.section # <<115,112,101,99,105,97,108,87,111,114,100,115>>
                                                                              \* "specialWords"
        THEN st
        ELSE With(Find(line, <<61>>, 0), LAMBDA eqPos :
            IF eqPos = npos THEN st
            ELSE With(Trim(SubStrFrom(line, eqPos + 1)), LAMBDA value :
                [st EXCEPT !.specialWords =
                    Put(@, Trim(SubStr(line, 0, eqPos)),
                        IF Len(value) >= 2 /\ value[1] = 34 /\ value[Len(value)] = 34
                        THEN SubStr(value, 1, Len(value) - 2) ELSE value)])))

RECURSIVE ReadSpecialLines(_, _, _)
ReadSpecialLines(lines, i, st) ==
    IF i > Len(lines) THEN st
    ELSE With(SpecialLine(st, lines[i]),
              LAMBDA st2 : ReadSpecialLines(lines, i + 1, st2))

\* Impl::parseSpecialWordsToml
parseSpecialWordsToml(content) ==
    With(GetLines(content, 10), LAMBDA lines :
        ReadSpecialLines(lines, 1, [section |-> <<>>, specialWords |-> EmptyMap]).specialWords)

---------------------------------------------------------------------------
(* CorrectionPipeline *)

\* Impl::applyAutoCorrection
applyAutoCorrection(sw, w) == IF w \in DOMAIN sw THEN sw[w] ELSE w

\* Impl::isVowel
isVowel(c) == ToLower(c) \in {97, 101, 105, 111, 117}

\* the first block of applySmartCorrection, for a word w longer than 3 whose
\* last four bytes, case-folded, are ec_3 ec_2 ec_1 ec_0: final y, schwa
EndingYOrSchwa(w, ec_0, ec_1, ec_2, ec_3) ==
    IF ~isVowel(ec_0) /\ ec_0 = 121
    THEN SubStr(w, 0, Len(w) - 1) \o <<101,101>>
    ELSE IF /\ ~(ec_0 = 97 /\ ec_1 = 104 /\ ec_2 = 104)
            /\ ~(ec_0 = 97 /\ ec_1 = 110 /\ ec_2 \in {107, 104, 114})
            /\ ~(ec_0 = 97 /\ ec_1 = 114 /\
                   ((ec_2 = 100 /\ ec_3 = 110) \/ (ec_2 = 116 /\ ec_3 = 110)))
            /\ ec_0 = 97
            /\ (ec_1 = 109 \/ (~isVowel(ec_1) /\ ~isVowel(ec_3) /\
                                ec_1 # 121 /\ ec_2 # 101))
    THEN w \o <<97>>
    ELSE w

\* CorrectEnding without its last rewrite: a final i is kept
CorrectEndingKeepsI(w) ==
    IF Len(w) <= 3 THEN w
    ELSE EndingYOrSchwa(w, ToLower(w[Len(w)]), ToLower(w[Len(w) - 1]),
                        ToLower(w[Len(w) - 2]), ToLower(w[Len(w) - 3]))

\* the first block of applySmartCorrection: the rewrites of the end of a word
\* longer than 3 (final y, schwa, final i)
CorrectEnding(w) ==
    IF Len(w) <= 3 THEN w
    ELSE With(EndingYOrSchwa(w, ToLower(w[Len(w)]), ToLower(w[Len(w) - 1]),
                             ToLower(w[Len(w) - 2]), ToLower(w[Len(w) - 3])),
              LAMBDA wd :
                  IF /\ ToLower(w[Len(w)]) = 105
                     /\ ~isVowel(ToLower(w[Len(w) - 1]))
                     /\ ~(ToLower(w[Len(w) - 1]) = 114 /\ ToLower(w[Len(w) - 2]) = 114)
                  THEN SubStr(wd, 0, Len(wd) - 1) \o <<101,101>>
                  ELSE wd)

\* VelarNasal without the case folding of the two bytes it tests
RECURSIVE VelarNasalExactCase(_, _)
VelarNasalExactCase(w, i) ==
    IF i >= Len(w) THEN w
    ELSE IF /\ w[i + 1] = 110 /\ i > 0 /\ i + 1 < Len(w)
            /\ w[i + 2] \in {107, 103}
         THEN With(Replace(w, i, 1, <<110,103>>), LAMBDA wd :
                  VelarNasalExactCase(wd, i + 2))
         ELSE VelarNasalExactCase(w, i + 1)

\* the second loop of applySmartCorrection: n before k or g becomes ng
RECURSIVE VelarNasal(_, _)
VelarNasal(w, i) ==
    IF i >= Len(w) THEN w
    ELSE IF /\ ToLower(w[i + 1]) = 110 /\ i > 0 /\ i + 1 < Len(w)
            /\ ToLower(w[i + 2]) \in {107, 103}
         THEN With(Replace(w, i, 1, <<110,103>>), LAMBDA wd : VelarNasal(wd, i + 2))
         ELSE VelarNasal(w, i + 1)

\* the while loop without its vowel test: ng before any character becomes ngg
RECURSIVE GeminateBeforeAny(_, _)
GeminateBeforeAny(w, pos_ng) ==
    IF pos_ng = npos THEN w
    ELSE IF pos_ng >= 2 /\ pos_ng + 2 < Len(w)
         THEN With(Replace(w, pos_ng, 2, <<110,103,103>>), LAMBDA wd :
                  With(Find(wd, <<110,103>>, pos_ng + 3), LAMBDA next :
                      GeminateBeforeAny(wd, next)))
         ELSE With(Find(w, <<110,103>>, pos_ng + 1), LAMBDA next :
                  GeminateBeforeAny(w, next))

\* the while loop of applySmartCorrection: ng before a vowel becomes ngg
RECURSIVE Geminate(_, _)
Geminate(w, pos_ng) ==
    IF pos_ng = npos THEN w
    ELSE IF pos_ng >= 2 /\ pos_ng + 2 < Len(w) /\ isVowel(w[pos_ng + 3])
         THEN With(Replace(w, pos_ng, 2, <<110,103,103>>), LAMBDA wd :
                  With(Find(wd, <<110,103>>, pos_ng + 3), LAMBDA next :
                      Geminate(wd, next)))
         ELSE With(Find(w, <<110,103>>, pos_ng + 1), LAMBDA next : Geminate(w, next))

\* NasalAssimilate without its palatal branch: only n before T or D is rewritten
RECURSIVE NasalAssimilateRetroflexOnly(_, _)
NasalAssimilateRetroflexOnly(w, i) ==
    IF i >= Len(w) THEN w
    ELSE IF w[i + 1] = 110 /\ i + 1 < Len(w) /\ w[i + 2] \in {84, 68}
         THEN With(Replace(w, i, 1, <<78>>), LAMBDA wd :
                  NasalAssimilateRetroflexOnly(wd, i + 2))
         ELSE NasalAssimilateRetroflexOnly(w, i + 1)

\* the last loop of applySmartCorrection: n before T or D becomes N, n before
\* ch (not chh) becomes the palatal nasal with a halant
RECURSIVE NasalAssimilate(_, _)
NasalAssimilate(w, i) ==
    IF i >= Len(w) THEN w
    ELSE IF w[i + 1] = 110 /\ i + 1 < Len(w)
         THEN IF w[i + 2] \in {84, 68}
              THEN With(Replace(w, i, 1, <<78>>), LAMBDA wd : NasalAssimilate(wd, i + 2))
              ELSE IF /\ w[i + 2] = 99 /\ i + 2 < Len(w) /\ w[i + 3] = 104
                      /\ ~(i + 3 < Len(w) /\ w[i + 4] = 104)
                   THEN With(Replace(w, i, 1, <<224,164,158,224,165,141>>),
                             LAMBDA wd : NasalAssimilate(wd, i + 2))
                   ELSE NasalAssimilate(w, i + 1)
         ELSE NasalAssimilate(w, i + 1)

\* the local variable word of applySmartCorrection after each of its blocks
SmartStages(w) ==
    With(CorrectEnding(w), LAMBDA w1 :
        With(VelarNasal(w1, 0), LAMBDA w2 :
            With(Geminate(w2, Find(w2, <<110,103>>, 0)), LAMBDA w3 :
                [ending |-> w1, velar |-> w2, geminate |-> w3,
                 nasal |-> NasalAssimilate(w3, 0)])))

\* Impl::applySmartCorrection
applySmartCorrection(w) == SmartStages(w).nasal

\* Impl::preprocess
preprocess(sw, autoCorrect, smart, w) ==
    IF autoCorrect /\ applyAutoCorrection(sw, w) # w THEN applyAutoCorrection(sw, w)
    ELSE IF smart THEN applySmartCorrection(w)
    ELSE w

\* what a call preprocess(w) did: whether the special word was substituted,
\* whether applySmartCorrection ran and its word after each block, and the
\* string returned
PreprocessTrace(sw, autoCorrect, smart, w) ==
    IF autoCorrect /\ applyAutoCorrection(sw, w) # w
    THEN [segment |-> w, special |-> TRUE, smart |-> FALSE, ending |-> w, velar |-> w,
          geminate |-> w, cleaned |-> preprocess(sw, autoCorrect, smart, w)]
    ELSE IF smart
    THEN With(SmartStages(w), LAMBDA st :
             [segment |-> w, special |-> FALSE, smart |-> TRUE, ending |-> st.ending,
              velar |-> st.velar, geminate |-> st.geminate,
              cleaned |-> preprocess(sw, autoCorrect, smart, w)])
    ELSE [segment |-> w, special |-> FALSE, smart |-> FALSE, ending |-> w, velar |-> w,
          geminate |-> w, cleaned |-> preprocess(sw, autoCorrect, smart, w)]

---------------------------------------------------------------------------
(* Segmenter / Preprocessor *)

\* the body of the loop of preprocessInput for the byte at index i: what it
\* appends to out
PreprocessByte(cm, in, i) ==
    IF in[i + 1] = 42 THEN <<in[i + 1]>>                                      \* "*"
    ELSE IF /\ i > 0
            /\ (in[i + 1] = 46 \/ in[i + 1] = 63 \/ <<in[i + 1]>> \in DOMAIN cm)
            /\ ~IsAlnum(in[i + 1])
            /\ in[i] # 32
         THEN <<32, in[i + 1]>>
         ELSE <<in[i + 1]>>

RECURSIVE preprocessInputFrom(_, _, _)
preprocessInputFrom(cm, in, i) ==
    IF i >= Len(in) THEN <<>>
    ELSE PreprocessByte(cm, in, i) \o preprocessInputFrom(cm, in, i + 1)

\* Impl::preprocessInput
preprocessInput(cm, in) == preprocessInputFrom(cm, in, 0)

\* one iteration of the masking loop of transliterate, for the "{" found at
\* beginIndex: m is [processed, engTokens, endIndex, tokenCount, threw]
MaskOne(m, beginIndex) ==
    With(Find(m.processed, <<125>>, beginIndex + 1), LAMBDA closing :
    With(IF closing = npos THEN Len(m.processed) - 1 ELSE closing, LAMBDA endIndex :
    With(SubStr(m.processed, beginIndex, endIndex - beginIndex + 1), LAMBDA token :
    With(<<36,45>> \o to_string(m.tokenCount) \o <<45,36>>, LAMBDA mask :
    With(SubStr(token, 1, WrapSize(Len(token) - 2)), LAMBDA original :
        IF token = OutOfRange \/ original = OutOfRange
        THEN [m EXCEPT !.threw = TRUE]
        ELSE [processed  |-> Replace(m.processed, beginIndex, Len(token), mask),
              engTokens  |-> Put(m.engTokens, mask, original),
              endIndex   |-> beginIndex + Len(mask),
              tokenCount |-> m.tokenCount + 1,
              threw      |-> FALSE])))))

\* the masking loop of transliterate
RECURSIVE MaskLoop(_)
MaskLoop(m) ==
    With(Find(m.processed, <<123>>, m.endIndex), LAMBDA beginIndex :
        IF beginIndex = npos \/ m.threw THEN m
        ELSE With(MaskOne(m, beginIndex), LAMBDA m2 : MaskLoop(m2)))

\* lines 635-652 of transliterate: preprocessInput, then the masking loop
MaskLiterals(cm, in) ==
    With([processed |-> preprocessInput(cm, in), engTokens |-> EmptyMap,
          endIndex |-> 0, tokenCount |-> 1, threw |-> FALSE],
         LAMBDA m : MaskLoop(m))

---------------------------------------------------------------------------
(* LongestMatchTransliterator *)

\* the tests of the for loop of transliterateSegment on the prefix part: a
\* digit kept, a symbol kept
DigitKept(inum, part) == Len(part) = 1 /\ IsDigit(part[1]) /\ ~inum
SymbolKept(sym, part) == Len(part) = 1 /\ ~IsAlnum(part[1]) /\ ~sym

\* the for loop: from the whole of rem down to one byte, the first length
\* whose prefix passes a test (0: none does)
RECURSIVE ScanPrefix(_, _, _, _, _)
ScanPrefix(cm, inum, sym, rem, i) ==
    IF i = 0 THEN 0
    ELSE IF \/ DigitKept(inum, SubStr(rem, 0, i))
            \/ SymbolKept(sym, SubStr(rem, 0, i))
            \/ SubStr(rem, 0, i) \in DOMAIN cm
         THEN i
         ELSE ScanPrefix(cm, inum, sym, rem, i - 1)

\* the value of matched after the for loop stopped at length i
Matched(cm, inum, sym, rem, i) ==
    IF i = 0 THEN <<>>
    ELSE IF DigitKept(inum, SubStr(rem, 0, i)) \/ SymbolKept(sym, SubStr(rem, 0, i))
         THEN SubStr(rem, 0, i)
         ELSE cm[SubStr(rem, 0, i)]

\* the last else forgotten: a character that is no key is dropped
FallbackByteDropped(cm, inum, sym, c) ==
    IF IsDigit(c) /\ ~inum THEN <<c>>
    ELSE IF ~IsAlnum(c) /\ ~sym THEN <<c>>
    ELSE IF <<c>> \in DOMAIN cm THEN cm[<<c>>]
    ELSE <<>>

\* the else branch (matched is empty): what rem[0] contributes; rem[0] of an
\* empty string is the terminating NUL
FallbackByte(cm, inum, sym, c) ==
    IF IsDigit(c) /\ ~inum THEN <<c>>
    ELSE IF ~IsAlnum(c) /\ ~sym THEN <<c>>
    ELSE IF <<c>> \in DOMAIN cm THEN cm[<<c>>]
    ELSE <<c>>

Fallback(cm, inum, sym, rem) ==
    FallbackByte(cm, inum, sym, IF rem = <<>> THEN 0 ELSE rem[1])

\* one iteration of while (!rem.empty()): [rem, n, key, out] is the text it
\* started from, the bytes it consumed, the length the for loop stopped at and
\* what it appended to subResult
MatchStep(cm, inum, sym, rem) ==
    With(ScanPrefix(cm, inum, sym, rem, Len(rem)), LAMBDA i :
    With(Matched(cm, inum, sym, rem, i), LAMBDA matched :
        IF matched # <<>>
        THEN [rem |-> rem, n |-> i, key |-> i, out |-> matched]
        ELSE [rem |-> rem, n |-> Min(i + 1, Len(rem)), key |-> i,
              out |-> Fallback(cm, inum, sym, EraseFront(rem, i))]))

\* the while loop of transliterateSegment over one sub-segment: acc is
\* [out, steps]
RECURSIVE MatchLoop(_, _, _, _, _)
MatchLoop(cm, inum, sym, rem, acc) ==
    IF rem = <<>> THEN acc
    ELSE With(MatchStep(cm, inum, sym, rem), LAMBDA st :
         With(EraseFront(rem, st.n), LAMBDA rest :
         With([out |-> acc.out \o st.out, steps |-> Append(acc.steps, st)], LAMBDA acc2 :
             MatchLoop(cm, inum, sym, rest, acc2))))

\* the test of the trailing backslash forgotten
StripHalantDespiteBackslash(subSegment, subResult) ==
    IF /\ Len(subResult) >= 3
       /\ SubSeq(subResult, Len(subResult) - 2, Len(subResult)) = <<224,165,141>>
       /\ Len(subSegment) > 1
    THEN SubSeq(subResult, 1, Len(subResult) - 3)
    ELSE subResult

\* the trailing-halant correction of a sub-segment's output
StripHalant(subSegment, subResult) ==
    IF /\ Len(subResult) >= 3
       /\ SubSeq(subResult, Len(subResult) - 2, Len(subResult)) = <<224,165,141>>
       /\ ~(subSegment # <<>> /\ subSegment[Len(subSegment)] = 92)
       /\ Len(subSegment) > 1
    THEN SubSeq(subResult, 1, Len(subResult) - 3)
    ELSE subResult

\* the body of the getline loop of transliterateSegment for one sub-segment
SubSegment(cm, inum, sym, subSegment) ==
    With(MatchLoop(cm, inum, sym, subSegment, [out |-> <<>>, steps |-> <<>>]), LAMBDA r :
        [out |-> StripHalant(subSegment, r.out), steps |-> r.steps])

\* the getline loop of transliterateSegment: acc is [out, steps]
RECURSIVE SubSegments(_, _, _, _, _, _)
SubSegments(cm, inum, sym, pieces, i, acc) ==
    IF i > Len(pieces) THEN acc
    ELSE IF pieces[i] = <<>> THEN SubSegments(cm, inum, sym, pieces, i + 1, acc)
    ELSE With(SubSegment(cm, inum, sym, pieces[i]), LAMBDA r :
         With([out |-> acc.out \o r.out, steps |-> acc.steps \o r.steps], LAMBDA acc2 :
             SubSegments(cm, inum, sym, pieces, i + 1, acc2)))

\* Impl::transliterateSegment: [out, steps]
transliterateSegment(cm, inum, sym, segment) ==
    With(GetLines(segment, 47), LAMBDA pieces :
        SubSegments(cm, inum, sym, pieces, 1, [out |-> <<>>, steps |-> <<>>]))

---------------------------------------------------------------------------
(* Transliteration::transliterate *)

\* the body of the segment loop for one non-empty segment: [out, steps, cleaned].
\* f is the record of the four flags as the call reads them.
Segment(cm, sw, f, segment) ==
    IF Len(segment) = 1 /\ IsDigit(segment[1]) /\ ~f.indic
    THEN [out |-> segment, steps |-> <<>>, cleaned |-> <<>>]
    ELSE IF Len(segment) = 1 /\ ~IsAlnum(segment[1]) /\ ~f.symbols
    THEN [out |-> segment, steps |-> <<>>, cleaned |-> <<>>]
    ELSE IF Len(segment) = 1 /\ segment \in DOMAIN cm
    THEN [out |-> cm[segment], steps |-> <<>>, cleaned |-> <<>>]
    ELSE With(PreprocessTrace(sw, f.auto, f.smart, segment), LAMBDA t :
         With(transliterateSegment(cm, f.indic, f.symbols, t.cleaned), LAMBDA r :
             [out |-> r.out, steps |-> r.steps, cleaned |-> <<t>>]))

\* while (std::getline(iss, segment, ' ')): acc is [out, steps, cleaned, first]
RECURSIVE SegmentLoop(_, _, _, _, _, _)
SegmentLoop(cm, sw, f, segments, i, acc) ==
    IF i > Len(segments) THEN acc
    ELSE IF segments[i] = <<>> THEN SegmentLoop(cm, sw, f, segments, i + 1, acc)
    ELSE With(Segment(cm, sw, f, segments[i]), LAMBDA r :
         With([out     |-> acc.out \o (IF acc.first THEN <<>> ELSE <<32>>) \o r.out,
               steps   |-> acc.steps \o r.steps,
               cleaned |-> acc.cleaned \o r.cleaned,
               first   |-> FALSE], LAMBDA acc2 :
             SegmentLoop(cm, sw, f, segments, i + 1, acc2)))

\* the inner while loop of the restoration: every occurrence of translatedMask
\* from pos on is replaced by original
RECURSIVE ReplaceAll(_, _, _, _)
ReplaceAll(res, translatedMask, original, pos) ==
    With(Find(res, translatedMask, pos), LAMBDA at :
        IF at = npos THEN res
        ELSE With(Replace(res, at, Len(translatedMask), original), LAMBDA res2 :
                 ReplaceAll(res2, translatedMask, original, at + Len(original))))

\* the restoration loop over engTokens, visited in the given order
RECURSIVE Restore(_, _, _, _, _, _)
Restore(cm, f, engTokens, order, i, res) ==
    IF i > Len(order) THEN res
    ELSE With(transliterateSegment(cm, f.indic, f.symbols, order[i]).out,
              LAMBDA translatedMask :
         With(ReplaceAll(res, translatedMask, engTokens[order[i]], 0), LAMBDA res2 :
             Restore(cm, f, engTokens, order, i + 1, res2)))

\* Transliteration::transliterate: [result, steps, cleaned, charMap].  The
\* range-for over the unordered engTokens visits the masks in an order the
\* library chooses.
transliterate(cm, sw, f, in, order) ==
    With(MaskLiterals(cm, in), LAMBDA m :
        IF m.threw
        THEN [result |-> OutOfRange, steps |-> <<>>, cleaned |-> <<>>, charMap |-> cm]
        ELSE With(GetLines(m.processed, 32), LAMBDA segments :
             With(SegmentLoop(cm, sw, f, segments, 1,
                              [out |-> <<>>, steps |-> <<>>, cleaned |-> <<>>,
                               first |-> TRUE]), LAMBDA r :
                 [result  |-> Restore(cm, f, m.engTokens, order, 1, r.out),
                  steps   |-> r.steps,
                  cleaned |-> r.cleaned,
                  charMap |-> cm])))

\* the masks the masking loop of a call creates
MasksOf(cm, in) == DOMAIN MaskLiterals(cm, in).engTokens

---------------------------------------------------------------------------
(* The data directories the engine is built from, and the inputs of the calls *)

\* mapping.toml of data directory 1:
\*     # lekhika mapping
\*     [charMap]
\*     a = "<U+0905>"
\*     1 = "<U+0967>"
\*     "." = "<U+0964>"
\*     
\*     [consonantMap]
\*     ka = "<U+0915>"
MappingToml1 ==
    <<35,32,108,101,107,104,105,107,97,32,109,97,112,112,105,110,103,10,91,99,104,97,114,77,
    97,112,93,10,97,32,61,32,34,224,164,133,34,10,49,32,61,32,34,224,165,167,34,10,34,46,34,
    32,61,32,34,224,165,164,34,10,10,91,99,111,110,115,111,110,97,110,116,77,97,112,93,10,
    107,97,32,61,32,34,224,164,149,34,10>>

\* mapping.toml of data directory 2: the sections in the other order, an explicit
\* entry for a key the consonant also derives, a comment after a value:
\*     [consonantMap]
\*     ka = "<U+0915>"
\*     [charMap]
\*     ki = "<U+0915><U+0940>"   # long i
\*     a = '<U+0905>'
\*     1 = "<U+0967>"
\*     . = "<U+0964>"
MappingToml2 ==
    <<91,99,111,110,115,111,110,97,110,116,77,97,112,93,10,107,97,32,61,32,34,224,164,149,
    34,10,91,99,104,97,114,77,97,112,93,10,107,105,32,61,32,34,224,164,149,224,165,128,34,
    32,32,32,35,32,108,111,110,103,32,105,10,97,32,61,32,39,224,164,133,39,10,49,32,61,32,
    34,224,165,167,34,10,46,32,61,32,34,224,165,164,34,10>>

\* mapping.toml of data directory 3: a key with an empty value, two consonant
\* entries that derive the same keys:
\*     [charMap]
\*     a = "<U+0905>"
\*     n = ""
\*     1 = "<U+0967>"
\*     . = "<U+0964>"
\*     [consonantMap]
\*     ka = "<U+0915>"
\*     k = "<U+0916>"
MappingToml3 ==
    <<91,99,104,97,114,77,97,112,93,10,97,32,61,32,34,224,164,133,34,10,110,32,61,32,34,34,
    10,49,32,61,32,34,224,165,167,34,10,46,32,61,32,34,224,165,164,34,10,91,99,111,110,115,
    111,110,97,110,116,77,97,112,93,10,107,97,32,61,32,34,224,164,149,34,10,107,32,61,32,34,
    224,164,150,34,10>>

\* mapping.toml of the data directory of SpecLoad: quoted keys, a quoted #,
\* a comment after a value, empty and unterminated values
\*     [charMap]
\*     a = "<U+0905>"
\*     "k\\" = "<U+0915><U+094D>"
\*     h = "#"
\*     n =
\*     i = ""
\*     e = "<U+090F>
\*     [consonantMap]
\*     ka = "<U+0915>" # velar
QuotedMappingToml ==
    <<91,99,104,97,114,77,97,112,93,10,97,32,61,32,34,224,164,133,34,10,34,107,92,92,34,
    32,61,32,34,224,164,149,224,165,141,34,10,104,32,61,32,34,35,34,10,110,32,61,10,105,
    32,61,32,34,34,10,101,32,61,32,34,224,164,143,10,91,99,111,110,115,111,110,97,110,116,
    77,97,112,93,10,107,97,32,61,32,34,224,164,149,34,32,35,32,118,101,108,97,114,10>>

\* autocorrect.toml of that directory
\*     [specialWords]
\*     kk = "<U+0950>"
\*     ak = "#"
\*     an = "<U+0905>" # note
\*     ka =
\*     na = ""
\*     ke = "<U+090F>
QuotedAutocorrectToml ==
    <<91,115,112,101,99,105,97,108,87,111,114,100,115,93,10,107,107,32,61,32,34,224,165,
    144,34,10,97,107,32,61,32,34,35,34,10,97,110,32,61,32,34,224,164,133,34,32,35,32,110,
    111,116,101,10,107,97,32,61,10,110,97,32,61,32,34,34,10,107,101,32,61,32,34,224,164,
    143,10>>

\* mapping.toml of a data directory whose table drops the $ and the text $-1-
\*     [charMap]
\*     a = "<U+0905>"
\*     "$-1-" = ""
\*     "$" = ""
EmptyValueMappingToml ==
    <<91,99,104,97,114,77,97,112,93,10,97,32,61,32,34,224,164,133,34,10,34,36,45,49,45,34,
    32,61,32,34,34,10,34,36,34,32,61,32,34,34,10>>

\* autocorrect.toml of every data directory:
\*     # whole-word overrides
\*     [specialWords]
\*     kk = "<U+0950>"
AutocorrectToml ==
    <<35,32,119,104,111,108,101,45,119,111,114,100,32,111,118,101,114,114,105,100,101,115,
    10,91,115,112,101,99,105,97,108,87,111,114,100,115,93,10,107,107,32,61,32,34,224,165,
    144,34,10>>

\* readFileContent("mapping.toml") in data directory id
\* the autocorrect.toml of the data directory of the correction runs: the
\* entry above,   ank = "अंक"   and a word kept as typed,   ink = "ink"
SmartAutocorrectToml ==
    AutocorrectToml \o
    <<97,110,107,32,61,32,34,224,164,133,224,164,130,224,164,149,34,10>> \o
    <<105,110,107,32,61,32,34,105,110,107,34,10>>

\* MappingToml1 between lines that are no comment, no section and no
\* assignment:   k   [charMap   ]] x
MalformedMappingToml ==
    <<107,10, 91,99,104,97,114,77,97,112,10>> \o MappingToml1 \o <<93,93,32,120,10>>

\* AutocorrectToml between two such lines:   kk   ank अंक
MalformedAutocorrectToml ==
    <<107,107,10>> \o AutocorrectToml \o
    <<97,110,107,32,224,164,133,224,164,130,224,164,149,10>>

MappingToml(id) ==
    IF id = 1 THEN MappingToml1 ELSE IF id = 2 THEN MappingToml2 ELSE MappingToml3

ConfigIds == {1, 2, 3}

\* the bytes an input of transliterate is made of: k a n 1 . space { } /
Alphabet == {107, 97, 110, 49, 46, 32, 123, 125, 47}

Inputs == SeqsUpTo(Alphabet, MaxLen)

\* the bytes of the inputs of SpecSmart: a i r n N k g c h and the space
SmartAlphabet == {97, 105, 114, 110, 78, 107, 103, 99, 104, 32}

SmartInputs == SeqsUpTo(SmartAlphabet, MaxSmartLen)

\* the inputs of the calls of SpecFlags: 1  .  kk  ank  a1.
FlagInputs == {<<49>>, <<46>>, <<107,107>>, <<97,110,107>>, <<97,49,46>>}

---------------------------------------------------------------------------
(* Validator *)

\* Character classification (code points in decimal)
isDevanagariConsonant(c) == (c >= 2325 /\ c <= 2361) \/ (c >= 2392 /\ c <= 2399)
isHalant(c) == c = 2381
isNukta(c) == c = 2364
isDependentVowelSign(c) == (c >= 2366 /\ c <= 2380) \/ (c >= 2402 /\ c <= 2403)
isIndependentVowel(c) == c >= 2308 /\ c <= 2324
isAnusvaraVisargaChandrabindu(c) == c = 2305 \/ c = 2306 \/ c = 2307
isAvagraha(c) == c = 2365
isZWJorZWNJ(c) == c = 8204 \/ c = 8205
isDigit(c) == c >= 2406 /\ c <= 2415

\* the code points a word of the model is made of:
\*   U+0915 KA  U+094D VIRAMA  U+093C NUKTA  U+093E SIGN AA  U+0905 A
\*   U+0902 ANUSVARA  U+093D AVAGRAHA  U+200C ZWNJ  U+200D ZWJ
\*   U+0967 DIGIT ONE  U+0964 DANDA  U+0965 DOUBLE DANDA
\*   U+0970 ABBREVIATION SIGN  U+0950 OM  U+0031 "1"  U+002E "."
CodePoints ==
    {2325, 2381, 2364, 2366, 2309, 2306, 2365, 8204, 8205,
     2407, 2404, 2405, 2416, 2384, 49, 46}

\* ICU's u_ispunct on CodePoints: the code points of general category P*
u_ispunct(c) == c \in {46, 2404, 2405, 2416}

isDandaOrPunctuation(c) == c = 2404 \/ c = 2405 \/ u_ispunct(c)

isAllowedDevanagariChar(c) ==
    \/ (c >= 2304 /\ c <= 2431)
    \/ (c >= 43232 /\ c <= 43263)
    \/ isZWJorZWNJ(c)

\* what icu::BreakIterator::createCharacterInstance can give the process:
\* no iterator (status is a failure), the grapheme cluster rules of UAX #29,
\* or those rules with the Indic conjunct rule GB9c of newer ICU releases
IcuBuilds == {"no-break-iterator", "uax29", "uax29-gb9c"}

\* Grapheme_Cluster_Break of c is Extend, ZWJ or SpacingMark (on CodePoints):
\* the character break iterator puts no boundary before such a code point
GraphemeExtender(c) ==
    \/ isHalant(c) \/ isNukta(c) \/ isDependentVowelSign(c)
    \/ isAnusvaraVisargaChandrabindu(c) \/ isZWJorZWNJ(c)

\* GB9c at offset p of u: a consonant follows a consonant, a virama and
\* nothing but viramas, nuktas and ZWJ in between
ConjunctAt(u, p) ==
    /\ isDevanagariConsonant(u[p + 1])
    /\ \E j \in 1..p :
         /\ isDevanagariConsonant(u[j])
         /\ \A k \in (j + 1)..p : isHalant(u[k]) \/ isNukta(u[k]) \/ u[k] = 8205
         /\ \E k \in (j + 1)..p : isHalant(u[k])

\* the offsets it->first(), it->next(), ... return before DONE
Boundaries(u, build) ==
    {0, Len(u)} \cup
    {p \in 1..(Len(u) - 1) :
        /\ ~GraphemeExtender(u[p + 1])
        /\ ~(build = "uax29-gb9c" /\ ConjunctAt(u, p))}

graphemeCount(u, build) ==
    IF u = <<>> THEN 0
    ELSE IF build = "no-break-iterator" THEN Len(u)
    ELSE IF Cardinality(Boundaries(u, build)) > 0
         THEN Cardinality(Boundaries(u, build)) - 1
         ELSE 0

\* the loop of sanitizeDevanagariWord leaving after the first code point it drops
RECURSIVE sanitizeFirstOnly(_)
sanitizeFirstOnly(u) ==
    IF u = <<>> THEN <<>>
    ELSE IF isDandaOrPunctuation(Head(u)) THEN Tail(u)
    ELSE <<Head(u)>> \o sanitizeFirstOnly(Tail(u))

\* sanitizeDevanagariWord(const icu::UnicodeString&)
sanitizeDevanagariWord(u) == SelectSeq(u, LAMBDA c : ~isDandaOrPunctuation(c))

\* U+FFFD, which icu::UnicodeString::fromUTF8 writes for an ill-formed sequence
Replacement == 65533

IsTrail(s, i) == i <= Len(s) /\ s[i] \in 128..191

\* the second byte that may follow the lead byte b of a 3- or 4-byte sequence
SecondOk(b, c) ==
    IF b = 224 THEN c \in 160..191
    ELSE IF b = 237 THEN c \in 128..159
    ELSE IF b = 240 THEN c \in 144..191
    ELSE IF b = 244 THEN c \in 128..143
    ELSE c \in 128..191

\* the code point read at position i of s (1-based) and the bytes it takes:
\* an ill-formed sequence gives U+FFFD for its longest well-formed beginning
DecodeAt(s, i) ==
    IF s[i] < 128 THEN [c |-> s[i], n |-> 1]
    ELSE IF s[i] \in 194..223
    THEN IF IsTrail(s, i + 1)
         THEN [c |-> (s[i] - 192) * 64 + (s[i + 1] - 128), n |-> 2]
         ELSE [c |-> Replacement, n |-> 1]
    ELSE IF s[i] \in 224..239
    THEN IF ~(i + 1 <= Len(s) /\ SecondOk(s[i], s[i + 1]))
         THEN [c |-> Replacement, n |-> 1]
         ELSE IF ~IsTrail(s, i + 2) THEN [c |-> Replacement, n |-> 2]
         ELSE [c |-> (s[i] - 224) * 4096 + (s[i + 1] - 128) * 64 + (s[i + 2] - 128),
               n |-> 3]
    ELSE IF s[i] \in 240..244
    THEN IF ~(i + 1 <= Len(s) /\ SecondOk(s[i], s[i + 1]))
         THEN [c |-> Replacement, n |-> 1]
         ELSE IF ~IsTrail(s, i + 2) THEN [c |-> Replacement, n |-> 2]
         ELSE IF ~IsTrail(s, i + 3) THEN [c |-> Replacement, n |-> 3]
         ELSE [c |-> (s[i] - 240) * 262144 + (s[i + 1] - 128) * 4096
                      + (s[i + 2] - 128) * 64 + (s[i + 3] - 128),
               n |-> 4]
    ELSE [c |-> Replacement, n |-> 1]

\* icu::UnicodeString::fromUTF8(s), as the sequence of its code points
RECURSIVE fromUTF8From(_, _)
fromUTF8From(s, i) ==
    IF i > Len(s) THEN <<>>
    ELSE With(DecodeAt(s, i), LAMBDA d : <<d.c>> \o fromUTF8From(s, i + d.n))

fromUTF8(s) == fromUTF8From(s, 1)

\* the UTF-8 bytes of one code point
EncodeOne(c) ==
    IF c < 128 THEN <<c>>
    ELSE IF c < 2048 THEN <<192 + (c \div 64), 128 + (c % 64)>>
    ELSE IF c < 65536
    THEN <<224 + (c \div 4096), 128 + ((c \div 64) % 64), 128 + (c % 64)>>
    ELSE <<240 + (c \div 262144), 128 + ((c \div 4096) % 64),
           128 + ((c \div 64) % 64), 128 + (c % 64)>>

\* icu::UnicodeString::toUTF8String
RECURSIVE toUTF8String(_)
toUTF8String(u) ==
    IF u = <<>> THEN <<>> ELSE EncodeOne(Head(u)) \o toUTF8String(Tail(u))

\* sanitizeDevanagariWord(const std::string&)
sanitizeDevanagariWordUTF8(s) ==
    With(fromUTF8(s), LAMBDA ustr :
        With(sanitizeDevanagariWord(ustr), LAMBDA sanitizedUstr :
            toUTF8String(sanitizedUstr)))

\* the bytes of the arguments of sanitizeDevanagariWord: the full stop and the
\* bytes of U+0915, U+0924, U+0925, U+0955, the danda and the double danda
SanitizeBytes == {46, 224, 164, 165, 149}

SanitizeInputs == SeqsUpTo(SanitizeBytes, MaxBytes)

\* the states of the automaton of isValidDevanagariWord, and "reject" for
\* return false inside the loop
States ==
    {"START", "AFTER_CONSONANT", "AFTER_HALANT", "AFTER_INDEPENDENT_VOWEL",
     "AFTER_SYLLABLE_WITH_MATRA", "AFTER_MODIFIER", "AFTER_AVAGRAHA"}

\* the loop body with the halant branch testing for any state but START
TransitionHalantAnywhere(state, c) ==
    IF ~isAllowedDevanagariChar(c) THEN "reject"
    ELSE IF isDigit(c) \/ isDandaOrPunctuation(c) THEN "reject"
    ELSE IF isDevanagariConsonant(c)
         THEN IF state \in States THEN "AFTER_CONSONANT" ELSE "reject"
    ELSE IF isIndependentVowel(c)
         THEN IF state \in {"START", "AFTER_INDEPENDENT_VOWEL", "AFTER_MODIFIER",
                            "AFTER_AVAGRAHA"}
              THEN "AFTER_INDEPENDENT_VOWEL" ELSE "reject"
    ELSE IF isHalant(c)
         THEN IF state # "START" THEN "AFTER_HALANT" ELSE "reject"
    ELSE IF isNukta(c)
         THEN IF state = "AFTER_CONSONANT" THEN "AFTER_CONSONANT" ELSE "reject"
    ELSE IF isDependentVowelSign(c)
         THEN IF state = "AFTER_CONSONANT" THEN "AFTER_SYLLABLE_WITH_MATRA" ELSE "reject"
    ELSE IF isAnusvaraVisargaChandrabindu(c)
         THEN IF state \in {"AFTER_CONSONANT", "AFTER_INDEPENDENT_VOWEL",
                            "AFTER_SYLLABLE_WITH_MATRA"}
              THEN "AFTER_MODIFIER" ELSE "reject"
    ELSE IF isAvagraha(c)
         THEN IF state \in {"AFTER_CONSONANT", "AFTER_INDEPENDENT_VOWEL",
                            "AFTER_SYLLABLE_WITH_MATRA", "AFTER_MODIFIER"}
              THEN "AFTER_AVAGRAHA" ELSE "reject"
    ELSE IF isZWJorZWNJ(c)
         THEN IF state = "AFTER_HALANT" THEN "AFTER_HALANT" ELSE "reject"
    ELSE "reject"

\* the body of the for loop of isValidDevanagariWord on code point c
Transition(state, c) ==
    IF ~isAllowedDevanagariChar(c) THEN "reject"
    ELSE IF isDigit(c) \/ isDandaOrPunctuation(c) THEN "reject"
    ELSE IF isDevanagariConsonant(c)
         THEN IF state \in States THEN "AFTER_CONSONANT" ELSE "reject"
    ELSE IF isIndependentVowel(c)
         THEN IF state \in {"START", "AFTER_INDEPENDENT_VOWEL", "AFTER_MODIFIER",
                            "AFTER_AVAGRAHA"}
              THEN "AFTER_INDEPENDENT_VOWEL" ELSE "reject"
    ELSE IF isHalant(c)
         THEN IF state = "AFTER_CONSONANT" THEN "AFTER_HALANT" ELSE "reject"
    ELSE IF isNukta(c)
         THEN IF state = "AFTER_CONSONANT" THEN "AFTER_CONSONANT" ELSE "reject"
    ELSE IF isDependentVowelSign(c)
         THEN IF state = "AFTER_CONSONANT" THEN "AFTER_SYLLABLE_WITH_MATRA" ELSE "reject"
    ELSE IF isAnusvaraVisargaChandrabindu(c)
         THEN IF state \in {"AFTER_CONSONANT", "AFTER_INDEPENDENT_VOWEL",
                            "AFTER_SYLLABLE_WITH_MATRA"}
              THEN "AFTER_MODIFIER" ELSE "reject"
    ELSE IF isAvagraha(c)
         THEN IF state \in {"AFTER_CONSONANT", "AFTER_INDEPENDENT_VOWEL",
                            "AFTER_SYLLABLE_WITH_MATRA", "AFTER_MODIFIER"}
              THEN "AFTER_AVAGRAHA" ELSE "reject"
    ELSE IF isZWJorZWNJ(c)
         THEN IF state = "AFTER_HALANT" THEN "AFTER_HALANT" ELSE "reject"
    ELSE "reject"

\* the for loop going on in AFTER_AVAGRAHA when the loop body rejects there
RECURSIVE RunPastAvagraha(_, _, _)
RunPastAvagraha(u, i, state) ==
    IF i >= Len(u) \/ state = "reject" THEN state
    ELSE IF state = "AFTER_AVAGRAHA" /\ Transition(state, u[i + 1]) = "reject"
         THEN RunPastAvagraha(u, i + 1, state)
         ELSE RunPastAvagraha(u, i + 1, Transition(state, u[i + 1]))

\* the for loop of isValidDevanagariWord from offset i in state state
RECURSIVE Run(_, _, _)
Run(u, i, state) ==
    IF i >= Len(u) \/ state = "reject" THEN state
    ELSE Run(u, i + 1, Transition(state, u[i + 1]))

\* the joiner test forgotten: the state alone decides
FinalValidationStateOnly(u, state) ==
    state \in {"AFTER_CONSONANT", "AFTER_INDEPENDENT_VOWEL",
               "AFTER_SYLLABLE_WITH_MATRA", "AFTER_MODIFIER", "AFTER_HALANT",
               "AFTER_AVAGRAHA"}

\* the final state test accepting only the states that carry a vowel sound
FinalValidationVowelSound(u, state) ==
    IF isZWJorZWNJ(u[Len(u)]) THEN FALSE
    ELSE state \in {"AFTER_CONSONANT", "AFTER_INDEPENDENT_VOWEL",
                    "AFTER_SYLLABLE_WITH_MATRA", "AFTER_MODIFIER"}

\* the final validation: the last code point is no joiner, the state accepts
FinalValidation(u, state) ==
    IF isZWJorZWNJ(u[Len(u)]) THEN FALSE
    ELSE state \in {"AFTER_CONSONANT", "AFTER_INDEPENDENT_VOWEL",
                    "AFTER_SYLLABLE_WITH_MATRA", "AFTER_MODIFIER", "AFTER_HALANT",
                    "AFTER_AVAGRAHA"}

\* the word sanitized before it is validated: punctuation is stripped, not rejected
isValidSanitizedWord(u, build) ==
    IF sanitizeDevanagariWord(u) = <<>> THEN FALSE
    ELSE IF graphemeCount(sanitizeDevanagariWord(u), build) < 2 THEN FALSE
    ELSE IF Run(sanitizeDevanagariWord(u), 0, "START") = "reject" THEN FALSE
    ELSE FinalValidation(sanitizeDevanagariWord(u),
                         Run(sanitizeDevanagariWord(u), 0, "START"))

\* isValidDevanagariWord(const icu::UnicodeString&)
isValidDevanagariWord(u, build) ==
    IF u = <<>> THEN FALSE
    ELSE IF graphemeCount(u, build) < 2 THEN FALSE
    ELSE IF Run(u, 0, "START") = "reject" THEN FALSE
    ELSE FinalValidation(u, Run(u, 0, "START"))

\* the words handed to the validator
Words == SeqsUpTo(CodePoints, MaxWordLen)

---------------------------------------------------------------------------
(* DictionaryManager.  Table words is a function word -> frequency.  A call
   into SQLite (prepare and step, exec) succeeds or fails: the database is
   locked by another connection, the disk is full. *)

\* isValidDevanagariWord(const std::string&)
isValidDevanagariWordUTF8(s, build) == isValidDevanagariWord(fromUTF8(s), build)

\* INSERT INTO words (word) VALUES (?) ON CONFLICT(word) DO UPDATE SET
\* frequency = frequency + 1
InsertOrIncrement(db, w) ==
    IF w \in DOMAIN db THEN [db EXCEPT ![w] = @ + 1] ELSE Put(db, w, 1)

\* DictionaryManager::addWord: [threw, db]; ok is the outcome of
\* sqlite3_prepare_v2 and sqlite3_step, which the code does not look at
addWord(db, w, ok) ==
    IF ok THEN [threw |-> FALSE, db |-> InsertOrIncrement(db, w)]
    ELSE [threw |-> FALSE, db |-> db]

\* DictionaryManager::removeWord
removeWord(db, w, ok) ==
    IF ok THEN [k \in DOMAIN db \ {w} |-> db[k]] ELSE db

\* DictionaryManager::reset: [threw, db]
reset(db, ok) ==
    IF ok THEN [threw |-> FALSE, db |-> EmptyMap] ELSE [threw |-> TRUE, db |-> db]

\* DictionaryManager::getWordFrequency
getWordFrequency(db, w, ok) ==
    IF ok /\ w \in DOMAIN db THEN db[w] ELSE -1

\* line.erase(0, line.find_first_not_of(" \t\n\r"));
\* line.erase(line.find_last_not_of(" \t\n\r") + 1)
TrimLine(line) ==
    With({i \in 1..Len(line) : line[i] \notin {32, 9, 10, 13}}, LAMBDA at :
        IF at = {} THEN <<>> ELSE SubSeq(line, SetMin(at), SetMax(at)))

\* the while loop of learnFromFile from line i on: acc is [db, wordsLearned,
\* adds, threw]; adds counts the addWord calls made, fate.step[n] is the
\* outcome of the n-th of them
RECURSIVE LearnLoop(_, _, _, _, _)
LearnLoop(lines, i, build, fate, acc) ==
    IF i > Len(lines) \/ acc.threw THEN acc
    ELSE With(TrimLine(lines[i]), LAMBDA line :
        IF line # <<>> /\ isValidDevanagariWordUTF8(line, build)
        THEN With(addWord(acc.db, line, fate.step[acc.adds + 1]), LAMBDA r :
             With([db |-> r.db, adds |-> acc.adds + 1, threw |-> r.threw,
                   wordsLearned |-> IF r.threw THEN acc.wordsLearned
                                    ELSE acc.wordsLearned + 1], LAMBDA acc2 :
                 LearnLoop(lines, i + 1, build, fate, acc2)))
        ELSE LearnLoop(lines, i + 1, build, fate, acc))

\* DictionaryManager::learnFromFile: [threw, wordsLearned, db].  fate.open is
\* whether the file opens, fate.begin and fate.commit whether BEGIN
\* TRANSACTION and COMMIT succeed; ROLLBACK restores the rows of BEGIN.
learnFromFile(db, content, build, fate) ==
    IF ~fate.open THEN [threw |-> TRUE, wordsLearned |-> 0, db |-> db]
    ELSE IF ~fate.begin THEN [threw |-> TRUE, wordsLearned |-> 0, db |-> db]
    ELSE With(LearnLoop(GetLines(content, 10), 1, build, fate,
                        [db |-> db, wordsLearned |-> 0, adds |-> 0, threw |-> FALSE]),
              LAMBDA r :
                  IF r.threw \/ ~fate.commit
                  THEN [threw |-> TRUE, wordsLearned |-> 0, db |-> db]
                  ELSE [threw |-> FALSE, wordsLearned |-> r.wordsLearned, db |-> r.db])

\* the words of the dictionary runs: U+0915 U+0924 and U+0924 U+0915
DictWords == {<<224,164,149,224,164,164>>, <<224,164,164,224,164,149>>}

\* the lines of the files of the learning runs: the two words, the first
\* between a space and a carriage return, one letter alone, a space
LearnLines ==
    DictWords \cup {<<32,224,164,149,224,164,164,13>>, <<224,164,149>>, <<32>>}

\* the file whose lines are ls
RECURSIVE JoinLines(_)
JoinLines(ls) == IF ls = <<>> THEN <<>> ELSE Head(ls) \o <<10>> \o JoinLines(Tail(ls))

LearnFiles == {JoinLines(ls) : ls \in SeqsUpTo(LearnLines, MaxLines)}

\* what may happen to the calls into the file system and SQLite of one
\* learnFromFile call
Fates == [open : BOOLEAN, begin : BOOLEAN, commit : BOOLEAN,
          step : [1..MaxLines -> BOOLEAN]]

\* the database files a DictionaryManager is opened on
StoredDictionaries ==
    {EmptyMap,
     (<<224,164,149,224,164,164>> :> 1),
     (<<224,164,149,224,164,164>> :> 2) @@ (<<224,164,164,224,164,149>> :> 1)}

---------------------------------------------------------------------------
(* The engine *)

\* a file of the data directory: it is not there, it is there and cannot be
\* opened, it opens and reading it delivers nothing (a directory of that name,
\* an I/O error), or it is read in full
FileStatus == {"missing", "cannot-open", "read-error", "readable"}

Readable(content) == [status |-> "readable", content |-> content]
Unusable(status) == [status |-> status, content |-> <<>>]

Directory(mapping, autocorrect) == [mapping |-> mapping, autocorrect |-> autocorrect]

\* no engine, no directory
NoDirectory == Directory(Unusable("missing"), Unusable("missing"))

\* Impl::readFileContent: [threw, content]
readFileContent(file) ==
    IF file.status = "missing" THEN [threw |-> TRUE, content |-> <<>>]
    ELSE IF file.status = "cannot-open" THEN [threw |-> TRUE, content |-> <<>>]
    ELSE IF file.status = "read-error" THEN [threw |-> FALSE, content |-> <<>>]
    ELSE [threw |-> FALSE, content |-> file.content]

\* Impl::loadMappings: [threw, charMap]
loadMappings(dir, order) ==
    With(readFileContent(dir.mapping), LAMBDA r :
        IF r.threw THEN [threw |-> TRUE, charMap |-> EmptyMap]
        ELSE IF r.content # <<>>
        THEN [threw |-> FALSE, charMap |-> parseMappingsToml(r.content, order)]
        ELSE [threw |-> FALSE, charMap |-> EmptyMap])

\* Impl::loadSpecialWords: [threw, specialWords]
loadSpecialWords(dir, enableAutoCorrect) ==
    IF ~enableAutoCorrect THEN [threw |-> FALSE, specialWords |-> EmptyMap]
    ELSE With(readFileContent(dir.autocorrect), LAMBDA r :
        IF r.threw THEN [threw |-> TRUE, specialWords |-> EmptyMap]
        ELSE IF r.content # <<>>
        THEN [threw |-> FALSE, specialWords |-> parseSpecialWordsToml(r.content)]
        ELSE [threw |-> FALSE, specialWords |-> EmptyMap])

\* Impl::Impl(dataDir): [threw, charMap, specialWords]; enableAutoCorrect_ has
\* the value of its member initialiser
Impl(dir, order) ==
    With(loadMappings(dir, order), LAMBDA m :
        IF m.threw THEN [threw |-> TRUE, charMap |-> EmptyMap, specialWords |-> EmptyMap]
        ELSE With(loadSpecialWords(dir, TRUE), LAMBDA w :
            IF w.threw
            THEN [threw |-> TRUE, charMap |-> EmptyMap, specialWords |-> EmptyMap]
            ELSE [threw |-> FALSE, charMap |-> m.charMap,
                  specialWords |-> w.specialWords]))

\* the consonantMap entries a mapping.toml file gives the constructor to expand
ConsonantsOf(file) == DOMAIN ReadMappings(readFileContent(file).content).consonantMap

\* the mapping.toml and autocorrect.toml files of the directories of SpecConstruct
MappingFiles ==
    {Unusable("missing"), Unusable("cannot-open"), Unusable("read-error"), Readable(<<>>),
     Readable(MappingToml1), Readable(MappingToml3), Readable(MalformedMappingToml)}

AutocorrectFiles ==
    {Unusable("missing"), Unusable("cannot-open"), Unusable("read-error"), Readable(<<>>),
     Readable(AutocorrectToml), Readable(MalformedAutocorrectToml)}

\* no DictionaryManager call has returned
NoDictCall ==
    [op |-> "none", word |-> <<>>, file |-> <<>>, ok |-> TRUE, threw |-> FALSE,
     value |-> 0, before |-> EmptyMap]

\* the flags cached by the first call a caller kept: later calls read the cache
FlagsCached ==
    IF earlier.set THEN earlier.flags
    ELSE [smart |-> enableSmartCorrection_, auto |-> enableAutoCorrect_,
          indic |-> enableIndicNumbers_, symbols |-> enableSymbolsTransliteration_]

\* the four flags as a call of transliterate reads them
Flags ==
    [smart |-> enableSmartCorrection_, auto |-> enableAutoCorrect_,
     indic |-> enableIndicNumbers_, symbols |-> enableSymbolsTransliteration_]

\* the member initialisers of Impl
AllEnabled == [smart |-> TRUE, auto |-> TRUE, indic |-> TRUE, symbols |-> TRUE]

\* no call is in its restoration loop
NoRestore == [engTokens |-> EmptyMap, order |-> <<>>, entry |-> 1, pos |-> 0]

NoCall == [set |-> FALSE, input |-> <<>>, flags |-> AllEnabled, result |-> <<>>,
           charMap |-> EmptyMap, specialWords |-> EmptyMap]

\* Transliteration::Transliteration with both files present: loadMappings,
\* then loadSpecialWords
Init ==
    /\ configId \in ConfigIds
    /\ dataDir_ = Directory(Readable(MappingToml(configId)), Readable(AutocorrectToml))
    /\ \E order \in Orderings(DOMAIN ReadMappings(MappingToml(configId)).consonantMap) :
           charMap_ = parseMappingsToml(MappingToml(configId), order)
    /\ specialWords_ = parseSpecialWordsToml(AutocorrectToml)
    /\ enableSmartCorrection_ = TRUE
    /\ enableAutoCorrect_ = TRUE
    /\ enableIndicNumbers_ = TRUE
    /\ enableSymbolsTransliteration_ = TRUE
    /\ pc = "idle"
    /\ input = <<>>
    /\ result = <<>>
    /\ steps = <<>>
    /\ cleaned = <<>>
    /\ callFlags = AllEnabled
    /\ restore = NoRestore
    /\ earlier = NoCall
    /\ word = <<>>
    /\ icu = "uax29"
    /\ verdict = "none"
    /\ db_ = EmptyMap
    /\ addCalls = EmptyMap
    /\ dictCall = NoDictCall

setEnableSmartCorrection(enable) ==
    /\ pc = "idle"
    /\ enableSmartCorrection_' = enable
    /\ UNCHANGED <<engineVars, enableAutoCorrect_, enableIndicNumbers_,
                   enableSymbolsTransliteration_, callVars, earlier, validVars, dictVars>>

setEnableAutoCorrect(enable) ==
    /\ pc = "idle"
    /\ enableAutoCorrect_' = enable
    /\ UNCHANGED <<engineVars, enableSmartCorrection_, enableIndicNumbers_,
                   enableSymbolsTransliteration_, callVars, earlier, validVars, dictVars>>

setEnableIndicNumbers(enable) ==
    /\ pc = "idle"
    /\ enableIndicNumbers_' = enable
    /\ UNCHANGED <<engineVars, enableSmartCorrection_, enableAutoCorrect_,
                   enableSymbolsTransliteration_, callVars, earlier, validVars, dictVars>>

setEnableSymbolsTransliteration(enable) ==
    /\ pc = "idle"
    /\ enableSymbolsTransliteration_' = enable
    /\ UNCHANGED <<engineVars, enableSmartCorrection_, enableAutoCorrect_,
                   enableIndicNumbers_, callVars, earlier, validVars, dictVars>>

\* a call transliterate(in) that runs to its return
Transliterate(in) ==
    /\ pc = "idle"
    /\ \E order \in Orderings(MasksOf(charMap_, in)) :
         \E r \in {transliterate(charMap_, specialWords_, Flags, in, order)} :
             /\ result' = r.result
             /\ steps' = r.steps
             /\ cleaned' = r.cleaned
             /\ charMap_' = r.charMap
    /\ input' = in
    /\ callFlags' = Flags
    /\ pc' = "returned"
    /\ UNCHANGED <<configId, dataDir_, specialWords_, flagVars, restore, earlier, validVars,
                   dictVars>>

\* the caller takes the result; the engine is ready for the next call
Return ==
    /\ pc = "returned"
    /\ pc' = "idle"
    /\ input' = <<>>
    /\ result' = <<>>
    /\ steps' = <<>>
    /\ cleaned' = <<>>
    /\ callFlags' = AllEnabled
    /\ UNCHANGED <<engineVars, flagVars, restore, earlier, validVars, dictVars>>

Next ==
    \/ \E enable \in BOOLEAN : setEnableSmartCorrection(enable)
    \/ \E enable \in BOOLEAN : setEnableAutoCorrect(enable)
    \/ \E enable \in BOOLEAN : setEnableIndicNumbers(enable)
    \/ \E enable \in BOOLEAN : setEnableSymbolsTransliteration(enable)
    \/ pc = "idle" /\ \E in \in Inputs : Transliterate(in)
    \/ Return

Spec == Init /\ [][Next]_vars

---------------------------------------------------------------------------
(* Sequences of calls on one engine: a caller that keeps one result *)

\* the caller takes the result and keeps it, with the call's input, the flag
\* values the engine held and its tables, to compare later calls with
ReturnRemembered ==
    /\ pc = "returned"
    /\ ~earlier.set
    /\ earlier' = [set |-> TRUE, input |-> input,
                   flags |-> [smart |-> enableSmartCorrection_,
                              auto |-> enableAutoCorrect_,
                              indic |-> enableIndicNumbers_,
                              symbols |-> enableSymbolsTransliteration_],
                   result |-> result,
                   charMap |-> charMap_, specialWords |-> specialWords_]
    /\ pc' = "idle"
    /\ input' = <<>>
    /\ result' = <<>>
    /\ steps' = <<>>
    /\ cleaned' = <<>>
    /\ callFlags' = AllEnabled
    /\ UNCHANGED <<engineVars, flagVars, restore, validVars, dictVars>>

NextFlags ==
    \/ \E enable \in BOOLEAN : setEnableSmartCorrection(enable)
    \/ \E enable \in BOOLEAN : setEnableAutoCorrect(enable)
    \/ \E enable \in BOOLEAN : setEnableIndicNumbers(enable)
    \/ \E enable \in BOOLEAN : setEnableSymbolsTransliteration(enable)
    \/ pc = "idle" /\ \E in \in FlagInputs : Transliterate(in)
    \/ Return
    \/ ReturnRemembered

SpecFlags == Init /\ [][NextFlags]_vars

---------------------------------------------------------------------------
(* The correction pipeline: an engine on a data directory whose
   autocorrect.toml has the special words kk and ank, calls with letters *)

InitSmart ==
    /\ configId = 1
    /\ dataDir_ = Directory(Readable(MappingToml(configId)), Readable(SmartAutocorrectToml))
    /\ \E order \in Orderings(DOMAIN ReadMappings(MappingToml(configId)).consonantMap) :
           charMap_ = parseMappingsToml(MappingToml(configId), order)
    /\ specialWords_ = parseSpecialWordsToml(SmartAutocorrectToml)
    /\ enableSmartCorrection_ = TRUE
    /\ enableAutoCorrect_ = TRUE
    /\ enableIndicNumbers_ = TRUE
    /\ enableSymbolsTransliteration_ = TRUE
    /\ pc = "idle"
    /\ input = <<>>
    /\ result = <<>>
    /\ steps = <<>>
    /\ cleaned = <<>>
    /\ callFlags = AllEnabled
    /\ restore = NoRestore
    /\ earlier = NoCall
    /\ word = <<>>
    /\ icu = "uax29"
    /\ verdict = "none"
    /\ db_ = EmptyMap
    /\ addCalls = EmptyMap
    /\ dictCall = NoDictCall

NextSmart ==
    \/ \E enable \in BOOLEAN : setEnableSmartCorrection(enable)
    \/ \E enable \in BOOLEAN : setEnableAutoCorrect(enable)
    \/ pc = "idle" /\ \E in \in SmartInputs : Transliterate(in)
    \/ Return

SpecSmart == InitSmart /\ [][NextSmart]_vars

---------------------------------------------------------------------------
(* Gemination: the engine of the correction runs, calls with words of up to
   five letters over a n N g k i *)

GeminateAlphabet == {97, 110, 78, 103, 107, 105}

GeminateInputs == SeqsUpTo(GeminateAlphabet, MaxGeminateLen)

NextGeminate ==
    \/ pc = "idle" /\ \E in \in GeminateInputs : Transliterate(in)
    \/ Return

SpecGeminate == InitSmart /\ [][NextGeminate]_vars

---------------------------------------------------------------------------
(* Construction: Transliteration(dataDir) on a directory whose files may be
   missing, unopenable, unreadable or hold malformed lines; then calls *)

InitConstruct ==
    /\ configId = 0
    /\ dataDir_ \in {Directory(m, a) : m \in MappingFiles, a \in AutocorrectFiles}
    /\ charMap_ = EmptyMap
    /\ specialWords_ = EmptyMap
    /\ enableSmartCorrection_ = TRUE
    /\ enableAutoCorrect_ = TRUE
    /\ enableIndicNumbers_ = TRUE
    /\ enableSymbolsTransliteration_ = TRUE
    /\ pc = "unconstructed"
    /\ input = <<>>
    /\ result = <<>>
    /\ steps = <<>>
    /\ cleaned = <<>>
    /\ callFlags = AllEnabled
    /\ restore = NoRestore
    /\ earlier = NoCall
    /\ word = <<>>
    /\ icu = "uax29"
    /\ verdict = "none"
    /\ db_ = EmptyMap
    /\ addCalls = EmptyMap
    /\ dictCall = NoDictCall

\* Transliteration::Transliteration(dataDir): the engine exists ("idle") or
\* the constructor threw and there is no object ("failed")
Construct ==
    /\ pc = "unconstructed"
    /\ \E order \in Orderings(ConsonantsOf(dataDir_.mapping)) :
         \E r \in {Impl(dataDir_, order)} :
             /\ pc' = IF r.threw THEN "failed" ELSE "idle"
             /\ charMap_' = r.charMap
             /\ specialWords_' = r.specialWords
    /\ UNCHANGED <<configId, dataDir_, flagVars, input, result, steps, cleaned, callFlags, restore,
                   earlier, validVars, dictVars>>

NextConstruct ==
    \/ Construct
    \/ pc = "idle" /\ \E in \in FlagInputs : Transliterate(in)
    \/ Return

SpecConstruct == InitConstruct /\ [][NextConstruct]_vars

---------------------------------------------------------------------------
(* Loading values: an engine constructed on a data directory whose files
   hold quoted keys, comments, empty and unterminated values; then calls *)

\* the bytes of the inputs of SpecLoad: k a n backslash / and the space
LoadAlphabet == {107, 97, 110, 92, 47, 32}

LoadInputs == SeqsUpTo(LoadAlphabet, MaxLen)

InitLoad ==
    /\ configId = 0
    /\ dataDir_ = Directory(Readable(QuotedMappingToml), Readable(QuotedAutocorrectToml))
    /\ charMap_ = EmptyMap
    /\ specialWords_ = EmptyMap
    /\ enableSmartCorrection_ = TRUE
    /\ enableAutoCorrect_ = TRUE
    /\ enableIndicNumbers_ = TRUE
    /\ enableSymbolsTransliteration_ = TRUE
    /\ pc = "unconstructed"
    /\ input = <<>>
    /\ result = <<>>
    /\ steps = <<>>
    /\ cleaned = <<>>
    /\ callFlags = AllEnabled
    /\ restore = NoRestore
    /\ earlier = NoCall
    /\ word = <<>>
    /\ icu = "uax29"
    /\ verdict = "none"
    /\ db_ = EmptyMap
    /\ addCalls = EmptyMap
    /\ dictCall = NoDictCall

NextLoad ==
    \/ Construct
    \/ pc = "idle" /\ \E in \in LoadInputs : Transliterate(in)
    \/ Return

SpecLoad == InitLoad /\ [][NextLoad]_vars

---------------------------------------------------------------------------
(* Termination: the restoration loop of transliterate taken one iteration at
   a time, on a directory with the usual table and on one whose table has
   empty values *)

\* the bytes of the inputs of SpecTerminate: a { } and the space
BraceAlphabet == {97, 123, 125, 32}

BraceInputs == SeqsUpTo(BraceAlphabet, MaxLen)

InitTerminate ==
    /\ configId = 0
    /\ dataDir_ \in {Directory(Readable(MappingToml1), Readable(AutocorrectToml)),
                     Directory(Readable(EmptyValueMappingToml), Readable(AutocorrectToml))}
    /\ charMap_ = EmptyMap
    /\ specialWords_ = EmptyMap
    /\ enableSmartCorrection_ = TRUE
    /\ enableAutoCorrect_ = TRUE
    /\ enableIndicNumbers_ = TRUE
    /\ enableSymbolsTransliteration_ = TRUE
    /\ pc = "unconstructed"
    /\ input = <<>>
    /\ result = <<>>
    /\ steps = <<>>
    /\ cleaned = <<>>
    /\ callFlags = AllEnabled
    /\ restore = NoRestore
    /\ earlier = NoCall
    /\ word = <<>>
    /\ icu = "uax29"
    /\ verdict = "none"
    /\ db_ = EmptyMap
    /\ addCalls = EmptyMap
    /\ dictCall = NoDictCall

\* transliterate up to the restoration loop: preprocessInput, the masking
\* loop and the segment loop; the range-for over engTokens is about to start
\* ("restoring"), or substr threw and the call is over
TransliterateSegments(in) ==
    /\ pc = "idle"
    /\ \E m \in {MaskLiterals(charMap_, in)} :
         IF m.threw
         THEN /\ pc' = "returned"
              /\ result' = OutOfRange
              /\ steps' = <<>>
              /\ cleaned' = <<>>
              /\ restore' = NoRestore
         ELSE /\ pc' = "restoring"
              /\ \E r \in {SegmentLoop(charMap_, specialWords_, Flags,
                                       GetLines(m.processed, 32), 1,
                                       [out |-> <<>>, steps |-> <<>>, cleaned |-> <<>>,
                                        first |-> TRUE])} :
                     /\ result' = r.out
                     /\ steps' = r.steps
                     /\ cleaned' = r.cleaned
              /\ \E order \in Orderings(DOMAIN m.engTokens) :
                     restore' = [engTokens |-> m.engTokens, order |-> order,
                                 entry |-> 1, pos |-> 0]
    /\ input' = in
    /\ callFlags' = Flags
    /\ UNCHANGED <<engineVars, flagVars, earlier, validVars, dictVars>>

\* transliterateSegment(mask) for the entry the range-for is at
TranslatedMask ==
    transliterateSegment(charMap_, callFlags.indic, callFlags.symbols,
                         restore.order[restore.entry]).out

\* one iteration of the inner while loop: find succeeded, the occurrence is
\* replaced by original and pos moves by original.length().  With an empty
\* translatedMask and an empty original the iteration changes neither result
\* nor pos: the thread executes the loop again from the same state, for ever.
\* With an empty translatedMask and a longer original result grows on every
\* iteration; the growth is followed up to MaxResult bytes.
RestoreReplace ==
    /\ pc = "restoring"
    /\ restore.entry <= Len(restore.order)
    /\ \E at \in {Find(result, TranslatedMask, restore.pos)} :
         \E original \in {restore.engTokens[restore.order[restore.entry]]} :
             /\ at # npos
             /\ \/ Len(original) <= Len(TranslatedMask)
                \/ Len(result) - Len(TranslatedMask) + Len(original) <= MaxResult
             /\ result' = Replace(result, at, Len(TranslatedMask), original)
             /\ restore' = [restore EXCEPT !.pos = at + Len(original)]
    /\ UNCHANGED <<engineVars, flagVars, pc, input, steps, cleaned, callFlags, earlier,
                   validVars, dictVars>>

\* find returned npos: the inner loop ends and the range-for moves on
RestoreNext ==
    /\ pc = "restoring"
    /\ restore.entry <= Len(restore.order)
    /\ Find(result, TranslatedMask, restore.pos) = npos
    /\ restore' = [restore EXCEPT !.entry = @ + 1, !.pos = 0]
    /\ UNCHANGED <<engineVars, flagVars, pc, input, result, steps, cleaned, callFlags,
                   earlier, validVars, dictVars>>

\* the range-for is past the last entry: return result
RestoreDone ==
    /\ pc = "restoring"
    /\ restore.entry > Len(restore.order)
    /\ pc' = "returned"
    /\ restore' = NoRestore
    /\ UNCHANGED <<engineVars, flagVars, input, result, steps, cleaned, callFlags,
                   earlier, validVars, dictVars>>

Restoration == RestoreReplace \/ RestoreNext \/ RestoreDone

NextTerminate ==
    \/ Construct
    \/ pc = "idle" /\ \E in \in BraceInputs : TransliterateSegments(in)
    \/ RestoreReplace
    \/ RestoreNext
    \/ RestoreDone
    \/ Return

\* a call that has started goes on executing: the thread that runs it is
\* scheduled and nothing in transliterate waits
SpecTerminate == InitTerminate /\ [][NextTerminate]_vars /\ WF_vars(Restoration)

---------------------------------------------------------------------------
(* Calls of the validator: a free function, no engine is constructed *)

InitValid ==
    /\ configId = 0
    /\ dataDir_ = NoDirectory
    /\ charMap_ = EmptyMap
    /\ specialWords_ = EmptyMap
    /\ enableSmartCorrection_ = TRUE
    /\ enableAutoCorrect_ = TRUE
    /\ enableIndicNumbers_ = TRUE
    /\ enableSymbolsTransliteration_ = TRUE
    /\ pc = "idle"
    /\ input = <<>>
    /\ result = <<>>
    /\ steps = <<>>
    /\ cleaned = <<>>
    /\ callFlags = AllEnabled
    /\ restore = NoRestore
    /\ earlier = NoCall
    /\ word = <<>>
    /\ icu \in IcuBuilds
    /\ verdict = "none"
    /\ db_ = EmptyMap
    /\ addCalls = EmptyMap
    /\ dictCall = NoDictCall

\* a call isValidDevanagariWord(u) that runs to its return
Validate(u) ==
    /\ pc = "idle"
    /\ word' = u
    /\ verdict' = isValidDevanagariWord(u, icu)
    /\ pc' = "validated"
    /\ UNCHANGED <<engineVars, flagVars, input, result, steps, cleaned, callFlags, restore,
                   earlier, icu, dictVars>>

\* the caller takes the answer
ReturnVerdict ==
    /\ pc = "validated"
    /\ pc' = "idle"
    /\ word' = <<>>
    /\ verdict' = "none"
    /\ UNCHANGED <<engineVars, flagVars, input, result, steps, cleaned, callFlags, restore,
                   earlier, icu, dictVars>>

NextValid ==
    \/ pc = "idle" /\ \E u \in Words : Validate(u)
    \/ ReturnVerdict

SpecValid == InitValid /\ [][NextValid]_vars

---------------------------------------------------------------------------
(* Calls of the sanitiser: a free function; a caller may hand the string it
   got back to a second call *)

InitSanitize ==
    /\ configId = 0
    /\ dataDir_ = NoDirectory
    /\ charMap_ = EmptyMap
    /\ specialWords_ = EmptyMap
    /\ enableSmartCorrection_ = TRUE
    /\ enableAutoCorrect_ = TRUE
    /\ enableIndicNumbers_ = TRUE
    /\ enableSymbolsTransliteration_ = TRUE
    /\ pc = "idle"
    /\ input = <<>>
    /\ result = <<>>
    /\ steps = <<>>
    /\ cleaned = <<>>
    /\ callFlags = AllEnabled
    /\ restore = NoRestore
    /\ earlier = NoCall
    /\ word = <<>>
    /\ icu = "uax29"
    /\ verdict = "none"
    /\ db_ = EmptyMap
    /\ addCalls = EmptyMap
    /\ dictCall = NoDictCall

\* a call sanitizeDevanagariWord(s) on a std::string
Sanitize(s) ==
    /\ pc = "idle"
    /\ input' = s
    /\ result' = sanitizeDevanagariWordUTF8(s)
    /\ pc' = "sanitized"
    /\ UNCHANGED <<engineVars, flagVars, steps, cleaned, callFlags, restore, earlier,
                   validVars, dictVars>>

\* the caller hands the string it got to sanitizeDevanagariWord again
SanitizeAgain ==
    /\ pc = "sanitized"
    /\ input' = result
    /\ result' = sanitizeDevanagariWordUTF8(result)
    /\ pc' = "sanitized-twice"
    /\ UNCHANGED <<engineVars, flagVars, steps, cleaned, callFlags, restore, earlier,
                   validVars, dictVars>>

\* the caller drops the string
ReturnSanitized ==
    /\ pc \in {"sanitized", "sanitized-twice"}
    /\ pc' = "idle"
    /\ input' = <<>>
    /\ result' = <<>>
    /\ UNCHANGED <<engineVars, flagVars, steps, cleaned, callFlags, restore, earlier,
                   validVars, dictVars>>

NextSanitize ==
    \/ pc = "idle" /\ \E s \in SanitizeInputs : Sanitize(s)
    \/ SanitizeAgain
    \/ ReturnSanitized

SpecSanitize == InitSanitize /\ [][NextSanitize]_vars

---------------------------------------------------------------------------
(* Calls on one open DictionaryManager *)

InitDict ==
    /\ configId = 0
    /\ dataDir_ = NoDirectory
    /\ charMap_ = EmptyMap
    /\ specialWords_ = EmptyMap
    /\ enableSmartCorrection_ = TRUE
    /\ enableAutoCorrect_ = TRUE
    /\ enableIndicNumbers_ = TRUE
    /\ enableSymbolsTransliteration_ = TRUE
    /\ pc = "idle"
    /\ input = <<>>
    /\ result = <<>>
    /\ steps = <<>>
    /\ cleaned = <<>>
    /\ callFlags = AllEnabled
    /\ restore = NoRestore
    /\ earlier = NoCall
    /\ word = <<>>
    /\ icu = "uax29"
    /\ verdict = "none"
    /\ db_ = EmptyMap
    /\ addCalls = [w \in DictWords |-> 0]
    /\ dictCall = NoDictCall

DictCall(op, w, ok, threw, value) ==
    [op |-> op, word |-> w, file |-> <<>>, ok |-> ok, threw |-> threw, value |-> value,
     before |-> db_]

AddWord(w, ok) ==
    /\ pc = "idle"
    /\ addCalls[w] < MaxAddCalls
    /\ w \in DOMAIN db_ => db_[w] < MaxAddCalls
    /\ db_' = addWord(db_, w, ok).db
    /\ addCalls' = [addCalls EXCEPT ![w] = @ + 1]
    /\ dictCall' = DictCall("addWord", w, ok, FALSE, 0)
    /\ pc' = "dict-returned"
    /\ UNCHANGED <<engineVars, flagVars, input, result, steps, cleaned, callFlags, restore,
                   earlier, validVars>>

RemoveWord(w, ok) ==
    /\ pc = "idle"
    /\ db_' = removeWord(db_, w, ok)
    /\ addCalls' = [addCalls EXCEPT ![w] = 0]
    /\ dictCall' = DictCall("removeWord", w, ok, FALSE, 0)
    /\ pc' = "dict-returned"
    /\ UNCHANGED <<engineVars, flagVars, input, result, steps, cleaned, callFlags, restore,
                   earlier, validVars>>

\* reset(): a call that throws has not reset the dictionary
Reset(ok) ==
    /\ pc = "idle"
    /\ db_' = reset(db_, ok).db
    /\ addCalls' = IF ok THEN [w \in DictWords |-> 0] ELSE addCalls
    /\ dictCall' = DictCall("reset", <<>>, ok, reset(db_, ok).threw, 0)
    /\ pc' = "dict-returned"
    /\ UNCHANGED <<engineVars, flagVars, input, result, steps, cleaned, callFlags, restore,
                   earlier, validVars>>

GetWordFrequency(w, ok) ==
    /\ pc = "idle"
    /\ dictCall' = DictCall("getWordFrequency", w, ok, FALSE, getWordFrequency(db_, w, ok))
    /\ pc' = "dict-returned"
    /\ UNCHANGED <<engineVars, flagVars, input, result, steps, cleaned, callFlags, restore,
                   earlier, validVars, db_, addCalls>>

\* the caller goes on
ReturnDict ==
    /\ pc = "dict-returned"
    /\ pc' = "idle"
    /\ dictCall' = NoDictCall
    /\ UNCHANGED <<engineVars, flagVars, input, result, steps, cleaned, callFlags, restore,
                   earlier, validVars, db_, addCalls>>

NextDict ==
    \/ \E w \in DictWords, ok \in BOOLEAN : AddWord(w, ok)
    \/ \E w \in DictWords, ok \in BOOLEAN : RemoveWord(w, ok)
    \/ \E ok \in BOOLEAN : Reset(ok)
    \/ \E w \in DictWords, ok \in BOOLEAN : GetWordFrequency(w, ok)
    \/ ReturnDict

SpecDict == InitDict /\ [][NextDict]_vars

\* the same calls on a database whose statements all succeed
NextDictHealthy ==
    \/ \E w \in DictWords : AddWord(w, TRUE)
    \/ \E w \in DictWords : RemoveWord(w, TRUE)
    \/ Reset(TRUE)
    \/ \E w \in DictWords : GetWordFrequency(w, TRUE)
    \/ ReturnDict

SpecDictHealthy == InitDict /\ [][NextDictHealthy]_vars

---------------------------------------------------------------------------
(* learnFromFile on a DictionaryManager opened on a stored database *)

InitLearn ==
    /\ configId = 0
    /\ dataDir_ = NoDirectory
    /\ charMap_ = EmptyMap
    /\ specialWords_ = EmptyMap
    /\ enableSmartCorrection_ = TRUE
    /\ enableAutoCorrect_ = TRUE
    /\ enableIndicNumbers_ = TRUE
    /\ enableSymbolsTransliteration_ = TRUE
    /\ pc = "idle"
    /\ input = <<>>
    /\ result = <<>>
    /\ steps = <<>>
    /\ cleaned = <<>>
    /\ callFlags = AllEnabled
    /\ restore = NoRestore
    /\ earlier = NoCall
    /\ word = <<>>
    /\ icu \in IcuBuilds
    /\ verdict = "none"
    /\ db_ \in StoredDictionaries
    /\ addCalls = [w \in DictWords |-> 0]
    /\ dictCall = NoDictCall

\* a call learnFromFile(path) on a file of the given content
LearnFromFile(content, fate) ==
    /\ pc = "idle"
    /\ \A w \in DOMAIN db_ : db_[w] <= MaxFrequency
    /\ \E r \in {learnFromFile(db_, content, icu, fate)} :
           /\ db_' = r.db
           /\ dictCall' = [op |-> "learnFromFile", word |-> <<>>, file |-> content,
                           ok |-> fate, threw |-> r.threw, value |-> r.wordsLearned,
                           before |-> db_]
    /\ pc' = "dict-returned"
    /\ UNCHANGED <<engineVars, flagVars, input, result, steps, cleaned, callFlags, restore,
                   earlier, validVars, addCalls>>

NextLearn ==
    \/ pc = "idle" /\ \E content \in LearnFiles, fate \in Fates : LearnFromFile(content, fate)
    \/ ReturnDict

SpecLearn == InitLearn /\ [][NextLearn]_vars

---------------------------------------------------------------------------
(* The properties *)

\* the bytes of a string, and how often byte c occurs in s
Range(s) == {s[i] : i \in DOMAIN s}
Count(c, s) == Cardinality({i \in DOMAIN s : s[i] = c})

\* the flag values the engine holds
InForce ==
    [smart |-> enableSmartCorrection_, auto |-> enableAutoCorrect_,
     indic |-> enableIndicNumbers_, symbols |-> enableSymbolsTransliteration_]

C2_MaskedSpanVerbatim ==
    pc = "returned" =>
        \A b \in DOMAIN input : \A e \in DOMAIN input :
            (/\ b < e /\ input[b] = 123 /\ input[e] = 125
             /\ \A j \in (b + 1)..(e - 1) : input[j] \notin {123, 125})
            => /\ Find(result, SubSeq(input, b + 1, e - 1), 0) # npos
               /\ (b = 1 /\ e = Len(input)) => result = SubSeq(input, b + 1, e - 1)

\* the lengths of the prefixes of s that are MappingTable keys
KeyPrefixes(s) == {j \in 1..Len(s) : SubSeq(s, 1, j) \in DOMAIN charMap_}

\* C3: at every position where the matching loop looks up the remaining input
\* (the start of an iteration, and the position its one-character fallback
\* acts on), it consumes the longest prefix that is a MappingTable key, never
\* a shorter key when a longer one matches.
C3_LongestKeyConsumed ==
    pc = "returned" =>
        \A i \in DOMAIN steps :
            LET rem  == steps[i].rem
                rest == SubSeq(rem, steps[i].key + 1, Len(rem))
            IN  /\ KeyPrefixes(rem) # {} => steps[i].key = SetMax(KeyPrefixes(rem))
                /\ steps[i].n > steps[i].key => KeyPrefixes(rest) \subseteq {1}

\* C7: with indic-number transliteration disabled, every ASCII digit of the
\* input appears unchanged in the output, as often as in the input.
C7_DigitsKept ==
    (pc = "returned" /\ ~enableIndicNumbers_) =>
        \A d \in 48..57 : Count(d, result) >= Count(d, input)

\* C8: with symbol transliteration disabled, a non-alphanumeric character of
\* the input that has a MappingTable value is left in the output as it is, as
\* often as in the input, and its value does not appear.
C8_SymbolsKept ==
    (pc = "returned" /\ ~enableSymbolsTransliteration_) =>
        \A c \in Range(input) :
            (~IsAlnum(c) /\ <<c>> \in DOMAIN charMap_)
            => /\ Count(c, result) >= Count(c, input)
               /\ Find(result, charMap_[<<c>>], 0) = npos

\* C9: the result of a call is the one its input and the flag values in force
\* give ("1" is left alone exactly when indic numbers are disabled, "." exactly
\* when symbols are, "kk" is the special word exactly when auto-correct is
\* enabled); the tables are those of the call a caller kept earlier, and a call
\* with the same input under the same flag values returns what that one did.
C9_FlagsReadAtCallTime ==
    /\ pc = "returned" =>
        /\ input = <<49>> =>
              result = IF enableIndicNumbers_ THEN <<224,165,167>> ELSE <<49>>
        /\ input = <<46>> =>
              result = IF enableSymbolsTransliteration_ THEN <<224,165,164>> ELSE <<46>>
        /\ (input = <<107,107>> /\ enableAutoCorrect_) => result = <<224,165,144>>
        /\ (input = <<107,107>> /\ ~enableAutoCorrect_) => result # <<224,165,144>>
    /\ earlier.set =>
        /\ charMap_ = earlier.charMap
        /\ specialWords_ = earlier.specialWords
        /\ (pc = "returned" /\ input = earlier.input /\ InForce = earlier.flags)
           => result = earlier.result

\* "1" called with indic numbers disabled after a kept call on "1" with them
\* enabled: the flag was changed between the two calls and the result follows it
C9_Witness ==
    /\ pc = "returned" /\ input = <<49>> /\ ~enableIndicNumbers_ /\ result = <<49>>
    /\ earlier.set /\ earlier.input = <<49>> /\ earlier.flags.indic
    /\ earlier.result = <<224,165,167>>

\* the [charMap] section of each data directory as the line loop of
\* parseMappingsToml read it, before any consonant is expanded
ExplicitEntries == [id \in ConfigIds |-> ReadMappings(MappingToml(id)).charMap]

\* C10: every key written in the charMap section maps in the final
\* MappingTable to the value written there.
C10_ExplicitEntriesKept ==
    \A k \in DOMAIN ExplicitEntries[configId] :
        k \in DOMAIN charMap_ /\ charMap_[k] = ExplicitEntries[configId][k]

\* data directory 2 writes ki = <U+0915 U+0940> and its consonant ka derives
\* ki = <U+0915 U+093F>: the table holds the written value
C10_Witness ==
    /\ configId = 2
    /\ <<107,105>> \in DOMAIN ExplicitEntries[2]
    /\ charMap_[<<107,105>>] = <<224,164,149,224,165,128>>
    /\ charMap_[<<107,101>>] = <<224,164,149,224,165,135>>

\* a word that is one grapheme cluster: nothing but combining marks and
\* joiners after its first code point
SingleGrapheme(u) == \A p \in 2..Len(u) : GraphemeExtender(u[p])

\* C4: for every word that is empty or a single grapheme cluster,
\* isValidDevanagariWord returns false.
C4_SingleGraphemeRejected ==
    (pc = "validated" /\ SingleGrapheme(word)) => verdict = FALSE

\* C5: for every word that contains a digit (ASCII or Devanagari), a danda or
\* double danda or a punctuation code point, isValidDevanagariWord returns false.
C5_DigitOrPunctuationRejected ==
    (pc = "validated" /\ \E i \in DOMAIN word : word[i] \in {49, 2407, 2404, 2405, 46, 2416})
    => verdict = FALSE

\* KA KA DIGIT-ONE on every ICU: two well-formed syllables and a digit
C5_Witness ==
    /\ pc = "validated" /\ word = <<2325, 2325, 2407>> /\ verdict = FALSE

\* C6: for every word whose last code point is ZWJ or ZWNJ,
\* isValidDevanagariWord returns false.
C6_TrailingJoinerRejected ==
    (pc = "validated" /\ word # <<>> /\ word[Len(word)] \in {8204, 8205})
    => verdict = FALSE

\* KA KA VIRAMA ZWJ: two grapheme clusters, the automaton ends in AFTER_HALANT,
\* which accepts, and the trailing joiner rejects
C6_Witness ==
    /\ pc = "validated" /\ word = <<2325, 2325, 2381, 8205>>
    /\ graphemeCount(word, icu) >= 2
    /\ Run(word, 0, "START") = "AFTER_HALANT"
    /\ verdict = FALSE

---------------------------------------------------------------------------
(* Properties of the correction pipeline (SpecSmart) *)

NonVowel(c) == ~(ToLower(c) \in {97, 101, 105, 111, 117})

\* the segment ends in i after a non-vowel and not in rri
EndsInShortI(seg) ==
    /\ Len(seg) >= 2
    /\ seg[Len(seg)] = 105
    /\ NonVowel(seg[Len(seg) - 1])
    /\ ~(Len(seg) >= 3 /\ ToLower(seg[Len(seg) - 1]) = 114 /\ ToLower(seg[Len(seg) - 2]) = 114)

\* the trailing i of the segment was replaced by ee
TrailingIReplaced(t) ==
    /\ t.ending = SubSeq(t.segment, 1, Len(t.segment) - 1) \o <<101,101>>
    /\ Len(t.cleaned) >= 2
    /\ SubSeq(t.cleaned, Len(t.cleaned) - 1, Len(t.cleaned)) = <<101,101>>

\* C11, as amended: with smart correction enabled and no auto-correct match,
\* every segment of length greater than 3 that ends in i after a non-vowel and
\* not in rri has its trailing i replaced by ee before the table lookup.
C11_TrailingIOfLongSegment ==
    pc = "returned" =>
        \A k \in DOMAIN cleaned :
            (/\ callFlags.smart /\ ~cleaned[k].special
             /\ Len(cleaned[k].segment) > 3
             /\ EndsInShortI(cleaned[k].segment))
            => TrailingIReplaced(cleaned[k])

\* the call transliterate("kani") corrected the segment to kanee
C11_Witness ==
    /\ pc = "returned"
    /\ callFlags.smart
    /\ \E k \in DOMAIN cleaned :
           /\ cleaned[k].segment = <<107,97,110,105>>
           /\ ~cleaned[k].special
           /\ cleaned[k].cleaned = <<107,97,110,101,101>>

\* C11, as stated: with smart correction enabled and no auto-correct match,
\* every segment of length at least 2 that ends in i after a non-vowel and not
\* in rri has its trailing i replaced by ee before the table lookup.
C11_TrailingIFromLengthTwo ==
    pc = "returned" =>
        \A k \in DOMAIN cleaned :
            (/\ callFlags.smart /\ ~cleaned[k].special
             /\ Len(cleaned[k].segment) >= 2
             /\ EndsInShortI(cleaned[k].segment))
            => TrailingIReplaced(cleaned[k])

\* position i of w holds n or N and the next position holds k, K, g or G
VelarPair(w, i) ==
    /\ ToLower(w[i]) = 110
    /\ i < Len(w)
    /\ ToLower(w[i + 1]) \in {107, 103}

\* w with ng in place of the byte at every position of the set at
RECURSIVE WithNg(_, _, _)
WithNg(w, at, i) ==
    IF i > Len(w) THEN <<>>
    ELSE (IF i \in at THEN <<110,103>> ELSE <<w[i]>>) \o WithNg(w, at, i + 1)

\* C12, as amended: with smart correction enabled, in every segment that
\* auto-correct does not substitute, every n (in either case) that is not the
\* first character of the segment and is immediately followed by k or g (in
\* either case) is replaced by ng before the table lookup, and no other
\* character is changed by that step; each n g so written is still in the word
\* that is looked up.
C12_VelarNasalAfterFirst ==
    pc = "returned" =>
        \A k \in DOMAIN cleaned :
            cleaned[k].smart =>
                /\ cleaned[k].velar =
                       WithNg(cleaned[k].ending,
                              {i \in 2..Len(cleaned[k].ending) :
                                   VelarPair(cleaned[k].ending, i)}, 1)
                /\ \A i \in 2..Len(cleaned[k].segment) :
                       VelarPair(cleaned[k].segment, i) =>
                           \E j \in 1..(Len(cleaned[k].cleaned) - 2) :
                               /\ SubSeq(cleaned[k].cleaned, j, j + 1) = <<110,103>>
                               /\ ToLower(cleaned[k].cleaned[j + 2]) \in {107, 103}

\* the call transliterate("aNk") without auto-correction looked up angk
C12_Witness ==
    /\ pc = "returned"
    /\ \E k \in DOMAIN cleaned :
           /\ cleaned[k].smart
           /\ cleaned[k].segment = <<97,78,107>>
           /\ cleaned[k].cleaned = <<97,110,103,107>>

\* C12, as stated: with smart correction enabled, every n (in either case)
\* immediately followed by k or g (in either case) is replaced by ng before
\* the table lookup, at whatever position of the segment it occurs.
C12_VelarNasalEverywhere ==
    pc = "returned" =>
        \A k \in DOMAIN cleaned :
            cleaned[k].smart =>
                \A i \in 1..Len(cleaned[k].segment) :
                    VelarPair(cleaned[k].segment, i) =>
                        \E j \in 1..(Len(cleaned[k].cleaned) - 2) :
                            /\ SubSeq(cleaned[k].cleaned, j, j + 1) = <<110,103>>
                            /\ ToLower(cleaned[k].cleaned[j + 2]) \in {107, 103}

\* the UTF-8 bytes of the palatal nasal followed by a halant
PalatalNasal == <<224,164,158,224,165,141>>

\* the positions of w that hold a lowercase n followed by ch and not by chh
PalatalPositions(w) ==
    {i \in 1..(Len(w) - 2) :
        /\ w[i] = 110 /\ w[i + 1] = 99 /\ w[i + 2] = 104
        /\ ~(i + 3 <= Len(w) /\ w[i + 3] = 104)}

\* the positions of w at which pat occurs
Occurrences(pat, w) ==
    {i \in 1..(Len(w) - Len(pat) + 1) : SubSeq(w, i, i + Len(pat) - 1) = pat}

\* C13: with smart correction applied to a segment, every lowercase n
\* immediately followed by ch and not by chh is replaced by the palatal nasal
\* with a halant before the lookup (no such n is left, and the glyph stands
\* before each ch), the matching loop never meets that n, and the output of
\* transliterate holds one copy of the glyph for each such n.
C13_PalatalNasalInjected ==
    pc = "returned" =>
        /\ \A k \in DOMAIN cleaned :
               cleaned[k].smart =>
                   /\ PalatalPositions(cleaned[k].cleaned) = {}
                   /\ Cardinality(Occurrences(PalatalNasal \o <<99,104>>,
                                               cleaned[k].cleaned))
                        = Cardinality(PalatalPositions(cleaned[k].segment))
        /\ callFlags.smart =>
               /\ \A n \in DOMAIN steps : 1 \notin PalatalPositions(steps[n].rem)
               /\ Cardinality(Occurrences(PalatalNasal, result))
                    = Cardinality({p \in (DOMAIN cleaned) \X (1..MaxSmartLen) :
                                      /\ cleaned[p[1]].smart
                                      /\ p[2] \in PalatalPositions(cleaned[p[1]].segment)})

\* a call with smart correction met n before ch and returned the glyph
C13_Witness ==
    /\ pc = "returned"
    /\ \E k \in DOMAIN cleaned :
           /\ cleaned[k].smart
           /\ PalatalPositions(cleaned[k].segment) # {}
    /\ Occurrences(PalatalNasal, result) # {}

---------------------------------------------------------------------------
(* Properties of the sanitiser (SpecSanitize) *)

\* a is u with some of its elements left out
RECURSIVE IsSubsequence(_, _)
IsSubsequence(a, u) ==
    IF a = <<>> THEN TRUE
    ELSE IF u = <<>> THEN FALSE
    ELSE IF Head(a) = Head(u) THEN IsSubsequence(Tail(a), Tail(u))
    ELSE IsSubsequence(a, Tail(u))

DandaOrPunctuation == {46, 2404, 2405}

\* C14: sanitizeDevanagariWord is idempotent: the string a second call returns
\* for the result of a first call is that result; the result of a call holds
\* no danda or punctuation code point and holds every other code point of the
\* argument, in the order of the argument.
C14_SanitizeIdempotent ==
    /\ pc = "sanitized-twice" => result = input
    /\ pc \in {"sanitized", "sanitized-twice"} =>
           /\ Range(fromUTF8(result)) \cap DandaOrPunctuation = {}
           /\ IsSubsequence(fromUTF8(result), fromUTF8(input))
           /\ Len(fromUTF8(result)) =
                  Cardinality({i \in DOMAIN fromUTF8(input) :
                                  fromUTF8(input)[i] \notin DandaOrPunctuation})

\* a second call was made on the two letters U+0915 U+0924 that a first call
\* returned, and returned them
C14_Witness ==
    /\ pc = "sanitized-twice"
    /\ input = <<224,164,149,224,164,164>>
    /\ result = <<224,164,149,224,164,164>>

---------------------------------------------------------------------------
(* Properties of construction (SpecConstruct) *)

\* the file is missing or unreadable
MissingOrUnreadable(file) == file.status \in {"missing", "cannot-open", "read-error"}

\* the content of a file of SpecConstruct without its malformed lines
WellFormedPart(file) ==
    IF file.content = MalformedMappingToml THEN MappingToml1
    ELSE IF file.content = MalformedAutocorrectToml THEN AutocorrectToml
    ELSE file.content

\* the tables are those of the two files without their malformed lines
TablesOfWellFormedParts ==
    /\ \E order \in Orderings(DOMAIN ReadMappings(WellFormedPart(dataDir_.mapping)).consonantMap) :
           charMap_ = parseMappingsToml(WellFormedPart(dataDir_.mapping), order)
    /\ specialWords_ = parseSpecialWordsToml(WellFormedPart(dataDir_.autocorrect))

\* C15: construction fails, and leaves no engine, whenever mapping.toml or
\* autocorrect.toml is missing or unreadable; when both are read it succeeds,
\* and a malformed line is skipped: the tables are those of the other lines.
C15_ConstructionFailsIffFileUnusable ==
    pc # "unconstructed" =>
        IF MissingOrUnreadable(dataDir_.mapping) \/ MissingOrUnreadable(dataDir_.autocorrect)
        THEN pc = "failed"
        ELSE pc # "failed" /\ TablesOfWellFormedParts

\* the part of C15 that holds: a file that is missing or cannot be opened makes
\* construction fail, and when both files open, construction succeeds and
\* malformed lines add nothing to the tables
C15_MissingOrUnopenableIsFatal ==
    pc # "unconstructed" =>
        IF \/ dataDir_.mapping.status \in {"missing", "cannot-open"}
           \/ dataDir_.autocorrect.status \in {"missing", "cannot-open"}
        THEN pc = "failed"
        ELSE pc # "failed" /\ TablesOfWellFormedParts

---------------------------------------------------------------------------
(* Properties of the dictionary (SpecLearn, SpecDict) *)

\* the lines of the file of the last learnFromFile call that are non-empty
\* after trimming and accepted by isValidDevanagariWord, trimmed, in file order
AcceptedLines ==
    SelectSeq([i \in DOMAIN GetLines(dictCall.file, 10) |->
                  TrimLine(GetLines(dictCall.file, 10)[i])],
              LAMBDA line : line # <<>> /\ isValidDevanagariWordUTF8(line, icu))

\* C16: learnFromFile is all-or-nothing: after a call that ended with an
\* error the stored words and their frequencies are those from before the
\* call; after a call that returned normally every word it accepted is stored.
C16_LearnAllOrNothing ==
    dictCall.op = "learnFromFile" =>
        /\ dictCall.threw => db_ = dictCall.before
        /\ ~dictCall.threw => \A w \in Range(AcceptedLines) : w \in DOMAIN db_

\* the part of C16 that holds: a call that ended with an error left the
\* stored words and frequencies as they were
C16_ErrorLeavesDictionary ==
    (dictCall.op = "learnFromFile" /\ dictCall.threw) => db_ = dictCall.before

\* the words whose row the last call wrote
Written ==
    {w \in DOMAIN db_ : w \notin DOMAIN dictCall.before \/ db_[w] # dictCall.before[w]}

\* C17: learnFromFile inserts only lines that are non-empty after trimming
\* and accepted by isValidDevanagariWord, and the count it returns is the
\* number of new words the call added to the dictionary.
C17_CountIsNewWords ==
    (dictCall.op = "learnFromFile" /\ ~dictCall.threw) =>
        /\ Written \subseteq Range(AcceptedLines)
        /\ DOMAIN dictCall.before \subseteq DOMAIN db_
        /\ dictCall.value = Cardinality(DOMAIN db_ \ DOMAIN dictCall.before)

\* the parts of C17 that hold: only accepted lines are written, and the count
\* is the number of accepted lines
C17_CountIsAcceptedLines ==
    (dictCall.op = "learnFromFile" /\ ~dictCall.threw) =>
        /\ Written \subseteq Range(AcceptedLines)
        /\ DOMAIN dictCall.before \subseteq DOMAIN db_
        /\ dictCall.value = Len(AcceptedLines)

\* C18: getWordFrequency(w) is the number of addWord(w) calls made since w was
\* last removed or the dictionary last reset, and -1 when there has been none.
C18_FrequencyCountsAddCalls ==
    dictCall.op = "getWordFrequency" =>
        dictCall.value = IF addCalls[dictCall.word] = 0 THEN -1
                         ELSE addCalls[dictCall.word]

---------------------------------------------------------------------------
(* Properties of the automaton of the validator (SpecValid) *)

\* halant, nukta, a matra, anusvara, avagraha, ZWNJ, ZWJ
MarksAndJoiners == {2381, 2364, 2366, 2306, 2365, 8204, 8205}

\* the word has an avagraha immediately followed by a code point of S
AvagrahaBefore(S) ==
    \E i \in 1..(Len(word) - 1) : word[i] = 2365 /\ word[i + 1] \in S

\* C19, as amended: after an avagraha only a consonant or an independent
\* vowel may follow: isValidDevanagariWord rejects every word in which an
\* avagraha is immediately followed by a halant, a nukta, a matra, a modifier,
\* another avagraha or a joiner.
C19_MarkAfterAvagrahaRejected ==
    (pc = "validated" /\ AvagrahaBefore(MarksAndJoiners)) => verdict = FALSE

\* the word ka ka avagraha aa-matra reached the avagraha state and was
\* rejected at the matra
C19_Witness ==
    /\ pc = "validated" /\ word = <<2325, 2325, 2365, 2366>>
    /\ graphemeCount(word, icu) >= 2
    /\ Run(<<2325, 2325, 2365>>, 0, "START") = "AFTER_AVAGRAHA"
    /\ verdict = FALSE

\* C19, as stated: isValidDevanagariWord rejects every word in which an
\* avagraha is immediately followed by an independent vowel, a halant, a
\* nukta, a matra, a modifier, another avagraha or a joiner.
C19_OnlyConsonantAfterAvagraha ==
    (pc = "validated" /\ AvagrahaBefore(MarksAndJoiners \cup {2309})) => verdict = FALSE

\* the state of the automaton after the first n code points of the word
StateAfter(n) == Run(SubSeq(word, 1, n), 0, "START")

\* C20: a halant, a nukta or a matra is accepted only in AFTER_CONSONANT
\* (moving to AFTER_HALANT, staying, moving to AFTER_SYLLABLE_WITH_MATRA), a
\* joiner only in AFTER_HALANT (staying); met in any other state, START
\* included, each of them makes the word invalid.
C20_MarksNeedTheirState ==
    pc = "validated" =>
        \A i \in 1..Len(word) :
            StateAfter(i - 1) # "reject" =>
                /\ word[i] = 2381 =>
                       IF StateAfter(i - 1) = "AFTER_CONSONANT"
                       THEN StateAfter(i) = "AFTER_HALANT"
                       ELSE StateAfter(i) = "reject" /\ verdict = FALSE
                /\ word[i] = 2364 =>
                       IF StateAfter(i - 1) = "AFTER_CONSONANT"
                       THEN StateAfter(i) = "AFTER_CONSONANT"
                       ELSE StateAfter(i) = "reject" /\ verdict = FALSE
                /\ word[i] = 2366 =>
                       IF StateAfter(i - 1) = "AFTER_CONSONANT"
                       THEN StateAfter(i) = "AFTER_SYLLABLE_WITH_MATRA"
                       ELSE StateAfter(i) = "reject" /\ verdict = FALSE
                /\ word[i] \in {8204, 8205} =>
                       IF StateAfter(i - 1) = "AFTER_HALANT"
                       THEN StateAfter(i) = "AFTER_HALANT"
                       ELSE StateAfter(i) = "reject" /\ verdict = FALSE

\* the word ka aa-matra halant ka: the matra was accepted after the
\* consonant, the halant met AFTER_SYLLABLE_WITH_MATRA and the word is invalid
C20_Witness ==
    /\ pc = "validated" /\ word = <<2325, 2366, 2381, 2325>>
    /\ graphemeCount(word, icu) >= 2
    /\ StateAfter(2) = "AFTER_SYLLABLE_WITH_MATRA"
    /\ StateAfter(3) = "reject"
    /\ verdict = FALSE

---------------------------------------------------------------------------
(* Properties of masking, segmentation and restoration (Spec) *)

\* the positions of the input that hold a { with no } after it
Unterminated == {p \in DOMAIN input : input[p] = 123 /\ \A q \in (p + 1)..Len(input) : input[q] # 125}

\* C21: when the input has a { with no later }, the literal text restored in
\* the output is all of the input after that { up to and including its last
\* character: the output ends with it.
C21_UnterminatedSpanKeepsLastCharacter ==
    (pc = "returned" /\ Unterminated # {}) =>
        \E r \in {SubSeq(input, SetMin(Unterminated) + 1, Len(input))} :
            /\ result # OutOfRange
            /\ Len(result) >= Len(r)
            /\ SubSeq(result, Len(result) - Len(r) + 1, Len(result)) = r

---------------------------------------------------------------------------
(* Properties of preprocess and of the trailing-halant correction (SpecSmart) *)

\* C22: with auto-correct enabled a segment that equals a SpecialWords key is
\* replaced by the mapped word, whatever that word is, and no smart-correction
\* rewrite is applied to it; a segment without exact match is rewritten by
\* applySmartCorrection when smart correction is enabled.
C22_SpecialWordSkipsSmartCorrection ==
    pc = "returned" =>
        \A k \in DOMAIN cleaned :
            IF callFlags.auto /\ cleaned[k].segment \in DOMAIN specialWords_
            THEN /\ cleaned[k].cleaned = specialWords_[cleaned[k].segment]
                 /\ ~cleaned[k].smart
            ELSE callFlags.smart =>
                     /\ cleaned[k].smart
                     /\ cleaned[k].cleaned = applySmartCorrection(cleaned[k].segment)

---------------------------------------------------------------------------
(* Properties of the trailing-halant correction and of loading (SpecLoad) *)

EndsWithHalant(s) == Len(s) >= 3 /\ SubSeq(s, Len(s) - 2, Len(s)) = <<224,165,141>>

\* the output of a sub-segment, from what the matching loop produced for it
HalantRemoved(subSegment, produced) ==
    IF /\ EndsWithHalant(produced)
       /\ subSegment[Len(subSegment)] # 92
       /\ Len(subSegment) > 1
    THEN SubSeq(produced, 1, Len(produced) - 3)
    ELSE produced

\* the outputs of the sub-segments of a call, from the iterations of the
\* matching loop from the n-th on: sub and produced are the sub-segment the
\* n-th iteration works on (empty: it starts one) and its output so far
RECURSIVE SubOutputs(_, _, _, _)
SubOutputs(st, n, sub, produced) ==
    IF n > Len(st) THEN <<>>
    ELSE LET s == IF sub = <<>> THEN st[n].rem ELSE sub
             o == produced \o st[n].out
         IN  IF st[n].n = Len(st[n].rem)
             THEN HalantRemoved(s, o) \o SubOutputs(st, n + 1, <<>>, <<>>)
             ELSE SubOutputs(st, n + 1, s, o)

\* the call was given one segment, which went through preprocess and
\* transliterateSegment
OneSegment == pc = "returned" /\ Len(cleaned) = 1 /\ cleaned[1].segment = input

\* C23: the output of a sub-segment is what the matching loop produced for
\* it, with the final halant removed exactly when that output ends with the
\* halant, the sub-segment does not end with a backslash and is longer than
\* one character; a one-character segment that is a key gives its mapped
\* value unchanged.
C23_TrailingHalantRemoved ==
    /\ OneSegment => result = SubOutputs(steps, 1, <<>>, <<>>)
    /\ (pc = "returned" /\ Len(input) = 1 /\ input \in DOMAIN charMap_) =>
           result = charMap_[input]

\* the matching loop ended a sub-segment of several characters and no
\* trailing backslash with a halant, and the output has none
C23_Witness ==
    /\ OneSegment
    /\ \E n \in DOMAIN steps :
           /\ n = Len(steps)
           /\ EndsWithHalant(steps[n].out)
           /\ steps[n].rem[Len(steps[n].rem)] # 92
           /\ Len(cleaned[1].cleaned) > 1
    /\ ~EndsWithHalant(result)

\* the positions of a value text that hold a # outside quotes
CommentStarts(v) ==
    {p \in DOMAIN v : v[p] = 35 /\ Cardinality({q \in 1..(p - 1) : v[q] = 34}) % 2 = 0}

\* a value text without the comment that a # outside quotes starts, trimmed
WithoutComment(v) ==
    Trim(IF CommentStarts(v) = {} THEN v ELSE SubSeq(v, 1, SetMin(CommentStarts(v)) - 1))

\* a value text that is empty, an empty quoted string, or opens a quote it
\* does not close
EmptyOrUnterminated(v) ==
    \/ v = <<>>
    \/ v = <<34,34>>
    \/ v[1] = 34 /\ (Len(v) = 1 \/ v[Len(v)] # 34)

\* the keys of the key = value lines of a configuration text whose value is
\* empty or unterminated
KeysWithoutValue(content) ==
    {Trim(SubStr(line, 0, Find(line, <<61>>, 0))) :
        line \in {l \in Range(GetLines(content, 10)) :
                      /\ Trim(l) # <<>>
                      /\ Trim(l)[1] # 35
                      /\ Find(l, <<61>>, 0) # npos
                      /\ EmptyOrUnterminated(WithoutComment(SubStrFrom(l, Find(l, <<61>>, 0) + 1)))}}

\* C24: in both configuration sources a key = value line whose value is
\* empty, an empty quoted string or an unterminated quote inserts no key:
\* after loading, the key is absent from MappingTable and from SpecialWords.
C24_EmptyOrUnterminatedValueInsertsNoKey ==
    pc \in {"idle", "returned"} =>
        /\ \A key \in KeysWithoutValue(dataDir_.mapping.content) : key \notin DOMAIN charMap_
        /\ \A key \in KeysWithoutValue(dataDir_.autocorrect.content) :
               key \notin DOMAIN specialWords_

\* the key = value lines of a configuration text whose value, once the
\* comment outside quotes is removed, is a quoted string that is not empty:
\* the pairs of the key text and of the text between the quotes
QuotedValues(content) ==
    {<<Trim(SubStr(line, 0, Find(line, <<61>>, 0))),
       With(WithoutComment(SubStrFrom(line, Find(line, <<61>>, 0) + 1)),
            LAMBDA v : SubSeq(v, 2, Len(v) - 1))>> :
        line \in {l \in Range(GetLines(content, 10)) :
                      /\ Trim(l) # <<>>
                      /\ Trim(l)[1] # 35
                      /\ Find(l, <<61>>, 0) # npos
                      /\ With(WithoutComment(SubStrFrom(l, Find(l, <<61>>, 0) + 1)),
                              LAMBDA v : Len(v) >= 3 /\ v[1] = 34 /\ v[Len(v)] = 34)}}

\* C25: in both configuration sources a # outside quotes in a value starts a
\* comment that is removed before the value is parsed, and a # inside a
\* quoted value is kept: after loading, the key of such a line is mapped to
\* the text between the quotes.
C25_CommentOutsideQuotesOnly ==
    pc \in {"idle", "returned"} =>
        /\ \A kv \in QuotedValues(dataDir_.mapping.content) :
               /\ unquote(kv[1]) \in DOMAIN charMap_
               /\ charMap_[unquote(kv[1])] = kv[2]
        /\ \A kv \in QuotedValues(dataDir_.autocorrect.content) :
               /\ kv[1] \in DOMAIN specialWords_
               /\ specialWords_[kv[1]] = kv[2]

---------------------------------------------------------------------------
(* Properties of the segment loop (Spec) *)

\* the outputs of the non-empty segments of the text pieces, in order
SegmentOutputs(cm, sw, f, pieces) ==
    [k \in DOMAIN SelectSeq(pieces, LAMBDA p : p # <<>>) |->
        Segment(cm, sw, f, SelectSeq(pieces, LAMBDA p : p # <<>>)[k]).out]

\* the texts that are not empty, with one space between successive ones
RECURSIVE JoinNonEmpty(_, _)
JoinNonEmpty(outs, k) ==
    IF k > Len(outs) THEN <<>>
    ELSE IF outs[k] = <<>> THEN JoinNonEmpty(outs, k + 1)
    ELSE IF JoinNonEmpty(outs, k + 1) = <<>> THEN outs[k]
    ELSE outs[k] \o <<32>> \o JoinNonEmpty(outs, k + 1)

\* C26: for input without literal spans the output is the outputs of the
\* non-empty segments in order with exactly one space between successive
\* non-empty output segments and none before the first; it never starts or
\* ends with a space and never holds two spaces in a row (no mapped value of
\* the tables holds a space).
C26_OneSpaceBetweenOutputs ==
    (pc = "returned" /\ 123 \notin Range(input)) =>
        /\ result = JoinNonEmpty(SegmentOutputs(charMap_, specialWords_, callFlags,
                                    GetLines(preprocessInput(charMap_, input), 32)), 1)
        /\ result # <<>> => result[1] # 32 /\ result[Len(result)] # 32
        /\ \A p \in 1..(Len(result) - 1) : ~(result[p] = 32 /\ result[p + 1] = 32)

---------------------------------------------------------------------------
(* Termination of transliterate (SpecTerminate) *)

\* C27: every call of transliterate terminates, for every input and every
\* loaded table, tables with empty values included: a call that has reached
\* its restoration loop returns.
C27_EveryCallReturns == (pc = "restoring") ~> (pc = "returned")

---------------------------------------------------------------------------
(* Properties of the final validation (SpecValid) *)

\* C28: the automaton is never in START after it has consumed a code point
\* without rejecting, so the final state test never fails on its own: a word
\* of at least two graphemes is accepted exactly when no transition rejected
\* and its last code point is not a joiner.
C28_FinalStateTestNeverDecides ==
    pc = "validated" =>
        /\ \A n \in 1..Len(word) : StateAfter(n) \in (States \ {"START"}) \cup {"reject"}
        /\ graphemeCount(word, icu) >= 2 =>
               (verdict = TRUE <=>
                    /\ \A n \in 1..Len(word) : StateAfter(n) # "reject"
                    /\ ~isZWJorZWNJ(word[Len(word)]))

\* a word of two graphemes or more that ends in a halant or an avagraha was
\* accepted
C28_Witness ==
    /\ pc = "validated"
    /\ graphemeCount(word, icu) >= 2
    /\ word[Len(word)] \in {2381, 2365}
    /\ StateAfter(Len(word)) \in {"AFTER_HALANT", "AFTER_AVAGRAHA"}
    /\ verdict = TRUE

---------------------------------------------------------------------------
(* Properties of the consonant expansion (Spec) *)

\* C29: the table built by parseMappingsToml is a function of the
\* configuration text alone: the table of the engine is the one every order
\* of expanding the consonantMap entries yields.
C29_TableIndependentOfOrder ==
    pc \in {"idle", "returned"} =>
        \A order \in Orderings(ConsonantsOf(dataDir_.mapping)) :
            charMap_ = parseMappingsToml(dataDir_.mapping.content, order)

---------------------------------------------------------------------------
(* Properties of the gemination step (SpecGeminate) *)

\* the positions of w from the third on that hold ng followed by a vowel
NgBeforeVowel(w) ==
    {p \in 3..(Len(w) - 2) : SubSeq(w, p, p + 1) = <<110,103>> /\ isVowel(w[p + 2])}

\* C30: the gemination step never changes the string the n-before-k/g step
\* hands it: in that string no ng at index 2 or later is followed by a vowel,
\* and every n before k or g has gained exactly one g.
C30_GeminationChangesNothing ==
    pc = "returned" =>
        \A k \in DOMAIN cleaned :
            cleaned[k].smart =>
                /\ cleaned[k].geminate = cleaned[k].velar
                /\ NgBeforeVowel(cleaned[k].velar) = {}
                /\ Len(cleaned[k].geminate) =
                       Len(cleaned[k].ending)
                       + Cardinality({i \in 2..Len(cleaned[k].ending) :
                                         VelarPair(cleaned[k].ending, i)})

\* a segment with ng before a vowel at index 2 or later went through both
\* steps and has ngg there
C30_Witness ==
    /\ pc = "returned"
    /\ \E k \in DOMAIN cleaned :
           /\ cleaned[k].smart
           /\ \E p \in NgBeforeVowel(cleaned[k].ending) :
                  SubSeq(cleaned[k].geminate, p, p + 2) = <<110,103,103>>

=============================================================================
